---- MODULE Spec2Model ----
(***************************************************************************)
(* A model of the rules engine of the-infinity-agency-paradox: the         *)
(* LoopManager action clock, the KnowledgeMenu log, the POISystem          *)
(* position graph, the QuantumSystem entry states, the QuantumNavigator    *)
(* and the OuterWildsOrchestrator loop that drives them.                   *)
(*                                                                         *)
(* Python objects are records, one variable per object; a method is an     *)
(* operator from the objects it touches to their new values and to what    *)
(* it returns.  Python's False/None returned as a signal is the string     *)
(* "False".  Printing, sleeping and waiting for Enter change no state and  *)
(* are left out; what the player chooses or types is an input (\E).        *)
(***************************************************************************)
EXTENDS Integers, FiniteSets, Sequences, TLC

VARIABLES
    lm,     \* LoopManager: actions_until_supernova, current_actions, loop_count, is_first_loop, cavern_has_collapsed
    km,     \* KnowledgeMenu.progress and the entries' discovered_loop
    poi,    \* POISystem: current_location, current_poi, in_ship, ship_flying, discovered_pois, visited_pois
    qs,     \* QuantumSystem.quantum_states: entry id -> 0 (never observed), 1..6
    nav,    \* QuantumNavigator.current_location
    orch,   \* OuterWildsOrchestrator: quantum_frequency_entered, launch_code_entered, eyes_closed, eyes_closed_at_location
    pc,     \* where _exploration_loop stands: "command", or the signal it is about to handle
    obs,    \* the kind of the last step of the orchestrator
    clk     \* the last call made on a component on its own, what it returned, and counts over the current loop

vars == <<lm, km, poi, qs, nav, orch, pc, obs, clk>>

-----------------------------------------------------------------------------
(* Bounds of the model. *)

\* loops explored: a reset is taken only while loop_count < MaxLoop
MaxLoop == 2
\* the clock harness spends on while current_actions < actions_until_supernova + MaxOverrun
MaxOverrun == 3

-----------------------------------------------------------------------------
(* LoopManager (src/src/loop_manager.py) *)

\* LoopManager.__init__: the default action budget
DefaultBudget == 22
\* increment_action: the action count at which the quantum cavern collapses
MidLoopAction == 14
\* increment_action: warning_threshold = actions_until_supernova - 4
WarningOffset == 4

\* LoopManager.__init__
LoopManagerInit(actions_until_supernova) ==
    [ actions_until_supernova |-> actions_until_supernova,
      current_actions         |-> 0,
      loop_count              |-> 1,
      is_first_loop           |-> TRUE,
      cavern_has_collapsed    |-> FALSE ]

\* increment_action with the supernova test written n > threshold
increment_action_late(l, action_cost) ==
    LET n  == l.current_actions + action_cost
        l1 == [l EXCEPT !.current_actions = n]
    IN  IF n = MidLoopAction /\ ~l.cavern_has_collapsed
        THEN [ lm     |-> [l1 EXCEPT !.cavern_has_collapsed = TRUE],
               signal |-> "quantum_cavern_collapse",
               warned |-> FALSE ]
        ELSE [ lm     |-> l1,
               signal |-> IF n > l.actions_until_supernova THEN "supernova" ELSE "False",
               warned |-> (n = l.actions_until_supernova - WarningOffset) ]

\* increment_action with the supernova test written n = threshold, as its
\* other two tests are
increment_action_exact(l, action_cost) ==
    LET n  == l.current_actions + action_cost
        l1 == [l EXCEPT !.current_actions = n]
    IN  IF n = MidLoopAction /\ ~l.cavern_has_collapsed
        THEN [ lm     |-> [l1 EXCEPT !.cavern_has_collapsed = TRUE],
               signal |-> "quantum_cavern_collapse",
               warned |-> FALSE ]
        ELSE [ lm     |-> l1,
               signal |-> IF n = l.actions_until_supernova THEN "supernova" ELSE "False",
               warned |-> (n = l.actions_until_supernova - WarningOffset) ]

\* LoopManager.increment_action: the new LoopManager, the returned signal and
\* whether _show_supernova_warning was called.  The collapse branch returns
\* before the warning and the supernova checks are reached.
increment_action(l, action_cost) ==
    LET n  == l.current_actions + action_cost
        l1 == [l EXCEPT !.current_actions = n]
    IN  IF n = MidLoopAction /\ ~l.cavern_has_collapsed
        THEN [ lm     |-> [l1 EXCEPT !.cavern_has_collapsed = TRUE],
               signal |-> "quantum_cavern_collapse",
               warned |-> FALSE ]
        ELSE [ lm     |-> l1,
               signal |-> IF n >= l.actions_until_supernova THEN "supernova" ELSE "False",
               warned |-> (n = l.actions_until_supernova - WarningOffset) ]

\* LoopManager.trigger_supernova, the LoopManager's own fields (the call of
\* knowledge_menu.increment_loop is in the caller's operator)
trigger_supernova(l) ==
    [l EXCEPT !.is_first_loop        = FALSE,
              !.current_actions      = 0,
              !.cavern_has_collapsed = FALSE,
              !.loop_count           = l.loop_count + 1]

-----------------------------------------------------------------------------
(* Content.  _load_location_data reads the locations, their POIs and their  *)
(* entries from content/data/locations.json; the model fixes one such       *)
(* content, with the ids the code names (timber_hearth and its               *)
(* radio_station, brittle_hollow and its quantum_cavern, quantum_moon with   *)
(* surface and grove) and every optional field written out at the default   *)
(* its .get() gives.  A full id f"{location}.{id}" is the pair               *)
(* <<location, id>>.                                                         *)

\* an empty dict
EmptyDict == [x \in {} |-> 0]

\* dict.get(key, {}) on a missing POI
NoPoi ==
    [ connections |-> <<>>, distance_to |-> EmptyDict, has_ship |-> FALSE,
      entries |-> <<>>, npcs |-> <<>> ]

\* location_data["supernova_config"]["actions_until_supernova"]
ConfiguredBudget == DefaultBudget

\* location_data["locations"].  brittle_hollow carries the always_accessible
\* flag next to a knowledge requirement, the case in which the flag decides;
\* the entry of the cavern appears in the log after the collapse has been
\* witnessed, and can be read before; it is a quantum entry with a knowledge
\* requirement, as the stabilization message of can_access_entry expects.
\* The radio station has a connection to old_mine, a POI timber_hearth does
\* not define: nothing in POISystem.__init__ or register_entries reads the
\* connection lists, so the content is constructed as any other.
LocationData ==
    [ timber_hearth |->
        [ starting_poi |-> "village_center", always_accessible |-> TRUE,
          requires_knowledge |-> {},
          points_of_interest |->
            [ village_center |->
                [ connections |-> <<"radio_station">>, distance_to |-> EmptyDict,
                  has_ship |-> TRUE, entries |-> <<"campfire_note">>, npcs |-> <<>> ],
              radio_station |->
                [ connections |-> <<"village_center", "old_mine">>,
                  distance_to |-> EmptyDict,
                  has_ship |-> FALSE, entries |-> <<"signal_log">>, npcs |-> <<>> ] ],
          entries |->
            [ campfire_note |->
                [ quantum |-> FALSE, adds_to_log |-> FALSE, knowledge_grants |-> {},
                  requires_knowledge |-> {}, requires_dialogue_count |-> 0,
                  requires_exploration_percentage |-> 0, appears_after |-> {} ],
              signal_log |->
                [ quantum |-> FALSE, adds_to_log |-> TRUE,
                  knowledge_grants |-> {"signal_scope_frequencies"},
                  requires_knowledge |-> {}, requires_dialogue_count |-> 0,
                  requires_exploration_percentage |-> 0, appears_after |-> {} ] ] ],
      brittle_hollow |->
        [ starting_poi |-> "landing_site", always_accessible |-> TRUE,
          requires_knowledge |-> {"ship_operation"},
          points_of_interest |->
            [ landing_site |->
                [ connections |-> <<"quantum_cavern">>,
                  distance_to |-> [quantum_cavern |-> 2],
                  has_ship |-> TRUE, entries |-> <<>>, npcs |-> <<>> ],
              quantum_cavern |->
                [ connections |-> <<"landing_site">>, distance_to |-> EmptyDict,
                  has_ship |-> FALSE, entries |-> <<"cavern_text">>, npcs |-> <<>> ] ],
          entries |->
            [ cavern_text |->
                [ quantum |-> TRUE, adds_to_log |-> TRUE,
                  knowledge_grants |-> {"quantum_insight"},
                  requires_knowledge |-> {"quantum_moon_frequency"},
                  requires_dialogue_count |-> 0,
                  requires_exploration_percentage |-> 0,
                  appears_after |-> {"cavern_collapse_witnessed"} ] ] ],
      quantum_moon |->
        [ starting_poi |-> "surface", always_accessible |-> FALSE,
          requires_knowledge |-> {"quantum_moon_frequency"},
          points_of_interest |->
            [ surface |->
                [ connections |-> <<>>, distance_to |-> EmptyDict,
                  has_ship |-> TRUE, entries |-> <<>>, npcs |-> <<>> ],
              grove |->
                [ connections |-> <<>>, distance_to |-> EmptyDict,
                  has_ship |-> FALSE,
                  entries |-> <<"grove_inscription", "grove_echo">>,
                  npcs |-> <<>> ] ],
          entries |->
            [ grove_inscription |->
                [ quantum |-> TRUE, adds_to_log |-> TRUE, knowledge_grants |-> {},
                  requires_knowledge |-> {}, requires_dialogue_count |-> 0,
                  requires_exploration_percentage |-> 0, appears_after |-> {} ],
              grove_echo |->
                [ quantum |-> TRUE, adds_to_log |-> FALSE, knowledge_grants |-> {},
                  requires_knowledge |-> {}, requires_dialogue_count |-> 0,
                  requires_exploration_percentage |-> 0, appears_after |-> {} ] ] ] ]

Locations == DOMAIN LocationData

Range(seq) == {seq[i] : i \in DOMAIN seq}

\* every <<location, entry id>> of the content
AllEntryIds ==
    UNION {{<<loc, e>> : e \in DOMAIN LocationData[loc].entries} : loc \in Locations}

\* KnowledgeMenu._get_entry_data / OuterWildsOrchestrator._get_entry_raw_data
_get_entry_data(entry_id) == LocationData[entry_id[1]].entries[entry_id[2]]

\* every <<location, POI id>> of the content
AllPois ==
    UNION {{<<loc, q>> : q \in DOMAIN LocationData[loc].points_of_interest} : loc \in Locations}

-----------------------------------------------------------------------------
(* KnowledgeProgress and KnowledgeMenu (src/src/knowledge_menu.py) *)

\* KnowledgeMenu.register_entries: all_entries holds the entries whose
\* adds_to_log is not false
all_entries == {e \in AllEntryIds : _get_entry_data(e).adds_to_log}

\* KnowledgeProgress() and the KnowledgeEntry defaults
KnowledgeInit ==
    [ entries_discovered          |-> {},
      knowledge_gained            |-> {},
      current_loop                |-> 1,
      dialogue_topics_asked       |-> 0,
      new_entries_since_last_view |-> 0,
      discovered_loop             |-> [e \in all_entries |-> 0] ]

\* add_entry without its test for an entry already discovered
add_entry_again(k, entry_id, loop) ==
    [km |-> [k EXCEPT !.entries_discovered = @ \cup {entry_id},
                      !.discovered_loop[entry_id] = loop,
                      !.knowledge_gained = @ \cup _get_entry_data(entry_id).knowledge_grants,
                      !.new_entries_since_last_view = @ + 1],
     ret |-> TRUE]

\* KnowledgeProgress.add_entry
add_entry(k, entry_id, loop) ==
    IF entry_id \in k.entries_discovered
    THEN [km |-> k, ret |-> FALSE]
    ELSE [km |-> [k EXCEPT !.entries_discovered = @ \cup {entry_id},
                           !.discovered_loop[entry_id] = loop,
                           !.knowledge_gained = @ \cup _get_entry_data(entry_id).knowledge_grants,
                           !.new_entries_since_last_view = @ + 1],
          ret |-> TRUE]

\* discover_entry without its test of all_entries
discover_entry_unregistered(k, entry_id) ==
    add_entry([k EXCEPT !.discovered_loop =
                   [e \in DOMAIN @ \cup {entry_id} |-> IF e \in DOMAIN @ THEN @[e] ELSE 0]],
              entry_id, k.current_loop)

\* KnowledgeMenu.discover_entry
discover_entry(k, entry_id) ==
    IF entry_id \notin all_entries
    THEN [km |-> k, ret |-> FALSE]
    ELSE add_entry(k, entry_id, k.current_loop)

\* KnowledgeProgress.has_knowledge
has_knowledge(k, knowledge_id) == knowledge_id \in k.knowledge_gained

\* KnowledgeProgress.has_all_knowledge
has_all_knowledge(k, knowledge_ids) == \A x \in knowledge_ids : x \in k.knowledge_gained

\* KnowledgeMenu.add_knowledge
add_knowledge(k, knowledge_id) == [k EXCEPT !.knowledge_gained = @ \cup {knowledge_id}]

\* increment_loop on a progress object made anew
increment_loop_fresh(k) ==
    [k EXCEPT !.current_loop = @ + 1, !.entries_discovered = {}]

\* KnowledgeMenu.increment_loop
increment_loop(k) == [k EXCEPT !.current_loop = @ + 1]

\* KnowledgeMenu.clear_new_entries
clear_new_entries(k) == [k EXCEPT !.new_entries_since_last_view = 0]

\* KnowledgeMenu._should_entry_appear
_should_entry_appear(k, entry_id) ==
    \A knowledge_id \in _get_entry_data(entry_id).appears_after :
        has_knowledge(k, knowledge_id)

\* KnowledgeMenu.increment_dialogue_asked
increment_dialogue_asked(k) == [k EXCEPT !.dialogue_topics_asked = @ + 1]

\* KnowledgeProgress.get_completion_percentage as the fraction <<numerator,
\* denominator>> of the float it returns
get_completion_percentage(k, total_entries) ==
    IF total_entries = 0
    THEN <<0, 1>>
    ELSE <<Cardinality(k.entries_discovered) * 100, total_entries>>

\* the reasons can_access_entry returns, up to the names and numbers it
\* formats into them
Reason ==
    [ stabilization |-> "QUANTUM TEXT - You need to learn stabilization",
      ship          |-> "You need to access the ship first",
      knowledge     |-> "Not yet...",
      dialogue      |-> "Talk more with Solanum first",
      exploration   |-> "Explore more before this reveals itself" ]

\* current_pct < required_pct, with required_pct given in hundredths:
\* (percentage / 100) < required / 100
below_required(k, required) ==
    LET pct == get_completion_percentage(k, Cardinality(all_entries))
    IN  pct[1] < required * pct[2]

\* the requirement tests of can_access_entry with the dialogue count tested
\* before the required knowledge
entry_access_dialogue_first(k, entry_data) ==
    IF /\ entry_data.requires_dialogue_count > 0
       /\ k.dialogue_topics_asked < entry_data.requires_dialogue_count
    THEN [allowed |-> FALSE, reason |-> Reason.dialogue]
    ELSE IF ~has_all_knowledge(k, entry_data.requires_knowledge)
    THEN [allowed |-> FALSE, reason |-> Reason.knowledge]
    ELSE IF /\ entry_data.requires_exploration_percentage > 0
            /\ below_required(k, entry_data.requires_exploration_percentage)
    THEN [allowed |-> FALSE, reason |-> Reason.exploration]
    ELSE [allowed |-> TRUE, reason |-> ""]

\* the requirement tests of KnowledgeMenu.can_access_entry on the entry data
\* it has looked up: required knowledge, dialogue count, exploration
\* percentage, in the order of the code
entry_access(k, entry_data) ==
    IF ~has_all_knowledge(k, entry_data.requires_knowledge)
    THEN LET missing == entry_data.requires_knowledge \ k.knowledge_gained
         IN  [allowed |-> FALSE,
              reason  |-> IF "quantum_stabilization_ability" \in missing
                          THEN Reason.stabilization
                          ELSE IF "ship_operation" \in missing
                          THEN Reason.ship
                          ELSE Reason.knowledge]
    ELSE IF /\ entry_data.requires_dialogue_count > 0
            /\ k.dialogue_topics_asked < entry_data.requires_dialogue_count
    THEN [allowed |-> FALSE, reason |-> Reason.dialogue]
    ELSE IF /\ entry_data.requires_exploration_percentage > 0
            /\ below_required(k, entry_data.requires_exploration_percentage)
    THEN [allowed |-> FALSE, reason |-> Reason.exploration]
    ELSE [allowed |-> TRUE, reason |-> ""]

\* KnowledgeMenu.can_access_entry
can_access_entry(k, entry_id) ==
    /\ entry_id \in all_entries
    /\ entry_access(k, _get_entry_data(entry_id)).allowed

\* KnowledgeMenu._get_visible_entries, as the set of the ids
_get_visible_entries(k) ==
    {e \in all_entries :
        /\ _should_entry_appear(k, e)
        /\ can_access_entry(k, e) \/ e \in k.entries_discovered}

-----------------------------------------------------------------------------
(* POISystem (src/src/poi_system.py) *)

\* the home location both reset paths write into current_location
HomeLocation == "timber_hearth"

\* POISystem._discover_poi
_discover_poi(p, location, poi_id) ==
    [p EXCEPT !.discovered_pois = @ \cup {<<location, poi_id>>}]

\* _initialize_starting_position starting both sets afresh
_initialize_starting_position_fresh(p) ==
    LET start == LocationData[p.current_location].starting_poi
    IN  [p EXCEPT !.current_poi = start,
                  !.discovered_pois = {<<p.current_location, start>>},
                  !.visited_pois = {<<p.current_location, start>>}]

\* POISystem._initialize_starting_position
_initialize_starting_position(p) ==
    LET start == LocationData[p.current_location].starting_poi
        p1    == _discover_poi([p EXCEPT !.current_poi = start], p.current_location, start)
    IN  [p1 EXCEPT !.visited_pois = @ \cup {<<p.current_location, start>>}]

\* POISystem.__init__
POISystemInit ==
    _initialize_starting_position(
        [ current_location |-> HomeLocation, current_poi |-> "None",
          in_ship |-> FALSE, ship_flying |-> FALSE,
          discovered_pois |-> {}, visited_pois |-> {} ])

\* POISystem.get_current_poi_data
get_current_poi_data(p) ==
    IF p.current_location \notin Locations
    THEN NoPoi
    ELSE LET pois == LocationData[p.current_location].points_of_interest
         IN  IF p.current_poi \in DOMAIN pois THEN pois[p.current_poi] ELSE NoPoi

\* POISystem.get_available_pois: the ids, in the order of the connection list
get_available_pois(p) ==
    IF p.current_location \notin Locations
    THEN <<>>
    ELSE SelectSeq(get_current_poi_data(p).connections,
                   LAMBDA q : q \in DOMAIN LocationData[p.current_location].points_of_interest)

\* dict.get("distance_to", {}).get(poi_id, 1)
distance(data, poi_id) ==
    IF poi_id \in DOMAIN data.distance_to THEN data.distance_to[poi_id] ELSE 1

\* move_to_poi without its test of the connection list
move_to_poi_anywhere(p, poi_id) ==
    LET data == get_current_poi_data(p)
    IN  [poi |-> [_discover_poi([p EXCEPT !.current_poi = poi_id], p.current_location, poi_id)
                     EXCEPT !.visited_pois = @ \cup {<<p.current_location, poi_id>>}],
         success |-> TRUE,
         cost |-> distance(data, poi_id)]

\* POISystem.move_to_poi
move_to_poi(p, poi_id) ==
    LET data == get_current_poi_data(p)
    IN  IF poi_id \notin Range(data.connections)
        THEN [poi |-> p, success |-> FALSE, cost |-> 0]
        ELSE [poi |-> [_discover_poi([p EXCEPT !.current_poi = poi_id], p.current_location, poi_id)
                          EXCEPT !.visited_pois = @ \cup {<<p.current_location, poi_id>>}],
              success |-> TRUE,
              cost |-> distance(data, poi_id)]

\* POISystem.enter_ship
enter_ship(p) ==
    IF ~get_current_poi_data(p).has_ship
    THEN [poi |-> p, success |-> FALSE, message |-> "Your ship isn't here."]
    ELSE IF p.in_ship
    THEN [poi |-> p, success |-> FALSE, message |-> "You're already in the ship."]
    ELSE [poi |-> [p EXCEPT !.in_ship = TRUE], success |-> TRUE,
          message |-> "You climb into the ship's cockpit."]

\* exit_ship without its test of ship_flying
exit_ship_midair(p) ==
    IF ~p.in_ship
    THEN [poi |-> p, success |-> FALSE, message |-> "You're not in the ship."]
    ELSE [poi |-> [p EXCEPT !.in_ship = FALSE], success |-> TRUE,
          message |-> "You step out of the ship."]

\* POISystem.exit_ship
exit_ship(p) ==
    IF ~p.in_ship
    THEN [poi |-> p, success |-> FALSE, message |-> "You're not in the ship."]
    ELSE IF p.ship_flying
    THEN [poi |-> p, success |-> FALSE, message |-> "You can't exit while flying! Land first."]
    ELSE [poi |-> [p EXCEPT !.in_ship = FALSE], success |-> TRUE,
          message |-> "You step out of the ship."]

\* POISystem.launch_ship
launch_ship(p) ==
    IF ~p.in_ship
    THEN [poi |-> p, success |-> FALSE, message |-> "You need to be in the ship."]
    ELSE IF p.ship_flying
    THEN [poi |-> p, success |-> FALSE, message |-> "You're already flying."]
    ELSE [poi |-> [p EXCEPT !.ship_flying = TRUE], success |-> TRUE,
          message |-> "The ship lifts off into space..."]

\* the fixed cost land_at_location returns on success
LandingCost == 2

\* land_at_location without its test of requires_knowledge
land_at_location_ungated(p, k, location_id) ==
    IF ~p.ship_flying
    THEN [poi |-> p, success |-> FALSE, cost |-> 0]
    ELSE IF location_id \notin Locations
    THEN [poi |-> p, success |-> FALSE, cost |-> 0]
    ELSE LET start == LocationData[location_id].starting_poi
             p1    == [p EXCEPT !.current_location = location_id,
                                !.ship_flying = FALSE,
                                !.current_poi = start]
         IN  [poi |-> [_discover_poi(p1, location_id, start)
                          EXCEPT !.visited_pois = @ \cup {<<location_id, start>>}],
              success |-> TRUE,
              cost |-> LandingCost]

\* POISystem.land_at_location
land_at_location(p, k, location_id) ==
    IF ~p.ship_flying
    THEN [poi |-> p, success |-> FALSE, cost |-> 0]
    ELSE IF location_id \notin Locations
    THEN [poi |-> p, success |-> FALSE, cost |-> 0]
    ELSE IF ~has_all_knowledge(k, LocationData[location_id].requires_knowledge)
    THEN [poi |-> p, success |-> FALSE, cost |-> 0]
    ELSE LET start == LocationData[location_id].starting_poi
             p1    == [p EXCEPT !.current_location = location_id,
                                !.ship_flying = FALSE,
                                !.current_poi = start]
         IN  [poi |-> [_discover_poi(p1, location_id, start)
                          EXCEPT !.visited_pois = @ \cup {<<location_id, start>>}],
              success |-> TRUE,
              cost |-> LandingCost]

-----------------------------------------------------------------------------
(* LocationSystem (src/src/location_system.py) *)

\* LocationSystem.can_visit_location, without the exploration percentage,
\* which no location of the content requires
can_visit_location(k, location_id) ==
    IF location_id \notin Locations
    THEN FALSE
    ELSE IF LocationData[location_id].always_accessible
    THEN TRUE
    ELSE has_all_knowledge(k, LocationData[location_id].requires_knowledge)

-----------------------------------------------------------------------------
(* QuantumSystem (src/src/quantum_system.py).  quantum_states.get(id, 0) is  *)
(* a total function that is 0 where the dict has no key.  The eyes_closed    *)
(* field of QuantumSystem is false whenever quantum_observation is entered   *)
(* and again when it returns, so its guard never takes the early return.     *)

\* the states a roll can give; 6 is the encryption-key state
QuantumStates == 1..6
KeyState == 6

\* the entries of the content whose raw data has quantum true
QuantumEntryIds == {e \in AllEntryIds : _get_entry_data(e).quantum}

\* QuantumSystem.__init__: no entry has been observed
QuantumInit == [e \in QuantumEntryIds |-> 0]

\* QuantumSystem.get_entry_state
get_entry_state(q, full_entry_id) ==
    IF full_entry_id \in DOMAIN q THEN q[full_entry_id] ELSE 0

\* _get_all_quantum_entries_at_poi restricted to the entries the ship log
\* registers
_get_all_quantum_entries_at_poi_logged(p) ==
    IF p.current_location \notin Locations
    THEN {}
    ELSE LET loc_info == LocationData[p.current_location]
         IN  IF p.current_poi \notin DOMAIN loc_info.points_of_interest
             THEN {}
             ELSE {<<p.current_location, x>> :
                     x \in {y \in Range(loc_info.points_of_interest[p.current_poi].entries) :
                              /\ y \in DOMAIN loc_info.entries
                              /\ loc_info.entries[y].quantum
                              /\ loc_info.entries[y].adds_to_log}}

\* QuantumSystem._get_all_quantum_entries_at_poi
_get_all_quantum_entries_at_poi(p) ==
    IF p.current_location \notin Locations
    THEN {}
    ELSE LET loc_info == LocationData[p.current_location]
         IN  IF p.current_poi \notin DOMAIN loc_info.points_of_interest
             THEN {}
             ELSE {<<p.current_location, x>> :
                     x \in {y \in Range(loc_info.points_of_interest[p.current_poi].entries) :
                              /\ y \in DOMAIN loc_info.entries
                              /\ loc_info.entries[y].quantum}}

\* _get_new_state without the exclusion of the old state
_get_new_state_any(old_state) == QuantumStates

\* QuantumSystem._get_new_state: the values random.randint / random.choice
\* can return
_get_new_state(old_state) ==
    IF old_state = 0
    THEN QuantumStates
    ELSE {s \in QuantumStates : s # old_state}

\* QuantumSystem.quantum_observation: the quantum_states the call can leave
quantum_observation(q, p) ==
    LET at_poi == _get_all_quantum_entries_at_poi(p)
    IN  {q2 \in [DOMAIN q -> 0..KeyState] :
           \A e \in DOMAIN q :
              IF e \in at_poi
              THEN q2[e] \in _get_new_state(get_entry_state(q, e))
              ELSE q2[e] = q[e]}

-----------------------------------------------------------------------------
(* QuantumNavigator (src/src/quantum_navigation.py).  The navigator is its  *)
(* current_location; has_visited_platform only selects a line of the scene  *)
(* description and is left out.                                              *)

\* self.locations[...]["stable_path"]
StablePath ==
    [ platform    |-> [east  |-> "crystals"],
      crystals    |-> [west  |-> "tree"],
      tree        |-> [north |-> "arch"],
      arch        |-> [south |-> "convergence"],
      convergence |-> EmptyDict ]

Directions == {"east", "west", "north", "south"}

\* the list of the random branch with convergence in it
RandomLocations_all == {"platform", "crystals", "tree", "arch", "convergence"}

\* the list the random branch of observe_direction draws from
RandomLocations == {"platform", "crystals", "tree", "arch"}

\* QuantumNavigator.__init__
NavigatorInit == [current_location |-> "platform"]

\* QuantumNavigator.reset_navigation
reset_navigation(n) == [n EXCEPT !.current_location = "platform"]

\* QuantumNavigator.is_at_grove
is_at_grove(n) == n.current_location = "grove"

\* QuantumNavigator._reach_grove
_reach_grove(n) ==
    [nav |-> [n EXCEPT !.current_location = "grove"], success |-> TRUE,
     reached_grove |-> TRUE, raised |-> FALSE]

\* close_eyes_reset without its test for convergence
close_eyes_reset_home(n) ==
    [nav |-> [n EXCEPT !.current_location = "platform"],
     success |-> TRUE, reached_grove |-> FALSE, raised |-> FALSE]

\* close_eyes_reset without the write of current_location
close_eyes_reset_stay(n) ==
    IF n.current_location = "convergence"
    THEN _reach_grove(n)
    ELSE [nav |-> n, success |-> TRUE, reached_grove |-> FALSE, raised |-> FALSE]

\* QuantumNavigator.close_eyes_reset
close_eyes_reset(n) ==
    IF n.current_location = "convergence"
    THEN _reach_grove(n)
    ELSE [nav |-> [n EXCEPT !.current_location = "platform"],
          success |-> TRUE, reached_grove |-> FALSE, raised |-> FALSE]

\* the keys of direction_map in observe_direction, as the orchestrator
\* passes them
CanonicalDirections == Directions \cup {"close eyes"}

\* what observe_direction returns when it changes nothing
Unmoved(n, success, reached_grove) ==
    [nav |-> n, success |-> success, reached_grove |-> reached_grove, raised |-> FALSE]

\* observe_direction with the random draw made on every edge
observe_direction_unstable(n, direction) ==
    IF direction \notin CanonicalDirections
    THEN {Unmoved(n, FALSE, FALSE)}
    ELSE IF is_at_grove(n)
    THEN {Unmoved(n, TRUE, TRUE)}
    ELSE IF direction = "close eyes"
    THEN {close_eyes_reset(n)}
    ELSE IF n.current_location \notin RandomLocations
    THEN {[nav |-> n, success |-> FALSE, reached_grove |-> FALSE, raised |-> TRUE]}
    ELSE {[nav |-> [n EXCEPT !.current_location = x],
           success |-> TRUE, reached_grove |-> FALSE, raised |-> FALSE] :
            x \in RandomLocations \ {n.current_location}}

\* observe_direction with the current location left in the list the random
\* branch draws from
observe_direction_stay(n, direction) ==
    IF direction \notin CanonicalDirections
    THEN {Unmoved(n, FALSE, FALSE)}
    ELSE IF is_at_grove(n)
    THEN {Unmoved(n, TRUE, TRUE)}
    ELSE IF direction = "close eyes"
    THEN {close_eyes_reset(n)}
    ELSE IF direction \in DOMAIN StablePath[n.current_location]
    THEN {[nav |-> [n EXCEPT !.current_location = StablePath[n.current_location][direction]],
           success |-> TRUE, reached_grove |-> FALSE, raised |-> FALSE]}
    ELSE {[nav |-> [n EXCEPT !.current_location = x],
           success |-> TRUE, reached_grove |-> FALSE, raised |-> FALSE] :
            x \in RandomLocations}

\* QuantumNavigator.observe_direction: the outcomes the call can have.  A
\* direction that is no key of direction_map changes nothing; at the grove
\* nothing moves; "close eyes" is close_eyes_reset.  Off the stable path the
\* destination is drawn from RandomLocations less the current location;
\* list.remove raises ValueError when the current location is not in the
\* list, which is the case at convergence.
observe_direction(n, direction) ==
    IF direction \notin CanonicalDirections
    THEN {Unmoved(n, FALSE, FALSE)}
    ELSE IF is_at_grove(n)
    THEN {Unmoved(n, TRUE, TRUE)}
    ELSE IF direction = "close eyes"
    THEN {close_eyes_reset(n)}
    ELSE IF direction \in DOMAIN StablePath[n.current_location]
    THEN {[nav |-> [n EXCEPT !.current_location = StablePath[n.current_location][direction]],
           success |-> TRUE, reached_grove |-> FALSE, raised |-> FALSE]}
    ELSE IF n.current_location \notin RandomLocations
    THEN {[nav |-> n, success |-> FALSE, reached_grove |-> FALSE, raised |-> TRUE]}
    ELSE {[nav |-> [n EXCEPT !.current_location = x],
           success |-> TRUE, reached_grove |-> FALSE, raised |-> FALSE] :
            x \in RandomLocations \ {n.current_location}}

-----------------------------------------------------------------------------
(* OuterWildsOrchestrator (src/src/new_orchestrator.py).  A handler is an    *)
(* operator on the world w, the record of the objects the orchestrator       *)
(* holds; its result carries the new world, whether the command costs an     *)
(* action (the value _process_command returns), the signals returned by the  *)
(* calls of increment_action inside the handler, which the handlers drop,    *)
(* and whether an exception left the handler.  The orchestrator passes       *)
(* POISystem.move_to_poi, land_at_location, get_contextual_actions and       *)
(* show_current_scene more arguments than their signatures in poi_system.py  *)
(* take; each is modelled by its body, on the arguments its signature        *)
(* declares.                                                                 *)

\* OuterWildsOrchestrator.__init__: the per-loop flags and the eye state
OrchestratorInit ==
    [ quantum_frequency_entered |-> FALSE, launch_code_entered |-> FALSE,
      eyes_closed |-> FALSE, eyes_closed_at_location |-> "None" ]

\* the value get_menu_choice returns when no option is chosen, among
\* location ids and among full entry ids
NoChoice == "None"
NoEntry == <<>>

\* the token both reset paths remove from knowledge_gained
LoopLocalToken == "cavern_collapse_witnessed"

Result(w, costs, inner) == [w |-> w, costs |-> costs, inner |-> inner, raised |-> FALSE]

\* the at_grove test of _exploration_loop and _show_current_scene
at_grove(p) == p.current_location = "quantum_moon" /\ p.current_poi = "grove"

\* the at_quantum_surface test of _get_command
at_quantum_surface(w) ==
    /\ w.poi.current_location = "quantum_moon"
    /\ w.poi.current_poi = "surface"
    /\ ~is_at_grove(w.nav)

\* OuterWildsOrchestrator._show_ship_log
_show_ship_log(w) == Result([w EXCEPT !.km = clear_new_entries(w.km)], FALSE, <<>>)

\* OuterWildsOrchestrator._handle_movement, and the True that the "go to"
\* branch of _process_command returns whatever the outcome.  The menu line
\* carries the name of a connected POI, which the handler matches back to
\* poi_id.
_handle_movement(w, poi_id) ==
    LET m == move_to_poi(w.poi, poi_id)
        s == increment_action(w.lm, 1)
    IN  IF m.success
        THEN Result([w EXCEPT !.poi = m.poi, !.lm = s.lm], TRUE, <<s.signal>>)
        ELSE Result(w, TRUE, <<>>)

\* OuterWildsOrchestrator._can_access_location
_can_access_location(w, location_id) ==
    /\ has_all_knowledge(w.km, LocationData[location_id].requires_knowledge)
    /\ location_id = "quantum_moon" => w.orch.quantum_frequency_entered

\* OuterWildsOrchestrator._land_at_location
_land_at_location(w, location_id) ==
    LET r == land_at_location(w.poi, w.km, location_id)
        s == increment_action(w.lm, r.cost)
    IN  IF r.success
        THEN Result([w EXCEPT !.poi = r.poi,
                              !.nav = IF location_id = "quantum_moon"
                                      THEN reset_navigation(@) ELSE @,
                              !.lm  = s.lm],
                    TRUE, <<s.signal>>)
        ELSE Result(w, TRUE, <<>>)

\* the destination_ids list of _handle_launch
destination_ids(w) == {loc \in Locations : _can_access_location(w, loc)}

\* OuterWildsOrchestrator._handle_launch; choice is the destination picked in
\* the navigation menu, or NoChoice
_handle_launch(w, choice) ==
    IF ~has_knowledge(w.km, "signal_scope_frequencies")
    THEN Result(w, TRUE, <<>>)
    ELSE LET r  == launch_ship(w.poi)
             s  == increment_action(w.lm, 1)
             w1 == [w EXCEPT !.poi = r.poi, !.lm = s.lm]
         IN  IF ~r.success
             THEN Result(w, TRUE, <<>>)
             ELSE IF destination_ids(w1) = {} \/ choice = NoChoice
             THEN Result(w1, TRUE, <<s.signal>>)
             ELSE IF choice = w1.poi.current_location
             THEN Result([w1 EXCEPT !.poi.ship_flying = FALSE], TRUE, <<s.signal>>)
             ELSE LET l == _land_at_location(w1, choice)
                  IN  Result(l.w, TRUE, <<s.signal>> \o l.inner)

\* OuterWildsOrchestrator._handle_enter_ship
_handle_enter_ship(w) == Result([w EXCEPT !.poi = enter_ship(w.poi).poi], FALSE, <<>>)

\* OuterWildsOrchestrator._handle_exit_ship
_handle_exit_ship(w) == Result([w EXCEPT !.poi = exit_ship(w.poi).poi], FALSE, <<>>)

\* the code _handle_enter_launch_code accepts
LaunchCode == "EPISTEMIC"

\* OuterWildsOrchestrator._handle_enter_launch_code on the typed code
_handle_enter_launch_code(w, code) ==
    IF w.poi.in_ship /\ ~w.orch.launch_code_entered /\ code = LaunchCode
    THEN Result([w EXCEPT !.km = add_knowledge(add_knowledge(@, "launch_code_epistemic"),
                                               "ship_operation"),
                          !.orch.launch_code_entered = TRUE],
                FALSE, <<>>)
    ELSE Result(w, FALSE, <<>>)

\* the frequency _handle_insert_frequency accepts
QuantumMoonFrequency == "5555"

\* OuterWildsOrchestrator._handle_insert_frequency on the typed frequency
_handle_insert_frequency(w, frequency_input) ==
    IF /\ w.poi.current_location = "timber_hearth"
       /\ w.poi.current_poi = "radio_station"
       /\ has_knowledge(w.km, "signal_scope_frequencies")
       /\ frequency_input = QuantumMoonFrequency
    THEN Result([w EXCEPT !.orch.quantum_frequency_entered = TRUE,
                          !.km = add_knowledge(@, "quantum_moon_frequency")],
                TRUE, <<>>)
    ELSE Result(w, TRUE, <<>>)

\* _read_entry without its test of the quantum state
_read_entry_any_state(w, full_id) ==
    LET entry_data == _get_entry_data(full_id)
        d          == discover_entry(w.km, full_id)
    IN  IF entry_data.quantum
        THEN IF d.ret
             THEN [w EXCEPT !.km = [d.km EXCEPT !.knowledge_gained =
                                                 @ \cup entry_data.knowledge_grants]]
             ELSE [w EXCEPT !.km = d.km]
        ELSE IF ~can_access_entry(w.km, full_id)
             THEN w
             ELSE [w EXCEPT !.km = d.km]

\* OuterWildsOrchestrator._read_entry.  A quantum entry is discovered when
\* its state is the key state, with no call of can_access_entry; the grants
\* are added a second time when the discovery was new.
_read_entry(w, full_id) ==
    LET entry_data == _get_entry_data(full_id)
        d          == discover_entry(w.km, full_id)
    IN  IF entry_data.quantum
        THEN IF get_entry_state(w.qs, full_id) = KeyState
             THEN IF d.ret
                  THEN [w EXCEPT !.km = [d.km EXCEPT !.knowledge_gained =
                                                      @ \cup entry_data.knowledge_grants]]
                  ELSE [w EXCEPT !.km = d.km]
             ELSE w
        ELSE IF ~can_access_entry(w.km, full_id)
             THEN w
             ELSE [w EXCEPT !.km = d.km]

\* the accessible list of _handle_examine, as the set of its full ids
accessible(w) ==
    {e \in {<<w.poi.current_location, x>> : x \in Range(get_current_poi_data(w.poi).entries)} :
        /\ e \in all_entries
        /\ \/ _get_entry_data(e).quantum
           \/ can_access_entry(w.km, e)
           \/ e \in w.km.entries_discovered}

\* OuterWildsOrchestrator._handle_examine; choice is the entry picked in the
\* menu, or NoEntry
_handle_examine(w, choice) ==
    IF get_current_poi_data(w.poi).entries = <<>> \/ accessible(w) = {} \/ choice = NoEntry
    THEN Result(w, FALSE, <<>>)
    ELSE Result(_read_entry(w, choice), TRUE, <<>>)

\* the arrival at the grove that _handle_cardinal_navigation and the "open
\* eyes" branch of _process_command both perform on the POISystem
arrive_at_grove(p) ==
    [_discover_poi([p EXCEPT !.current_poi = "grove"], "quantum_moon", "grove")
        EXCEPT !.visited_pois = @ \cup {<<"quantum_moon", "grove">>}]

\* OuterWildsOrchestrator._handle_cardinal_navigation, for the outcome o of
\* observe_direction; an exception raised there leaves the handler
_handle_cardinal_navigation(w, o) ==
    IF o.raised
    THEN [w |-> w, costs |-> TRUE, inner |-> <<>>, raised |-> TRUE]
    ELSE IF o.reached_grove
    THEN Result([w EXCEPT !.nav = o.nav,
                          !.km  = add_knowledge(@, "grove_navigation_complete"),
                          !.poi = arrive_at_grove(@)],
                TRUE, <<>>)
    ELSE Result([w EXCEPT !.nav = o.nav], TRUE, <<>>)

\* the three "close eyes" branches of _process_command, in the order they
\* are tested; q2 is the outcome of quantum_observation
close_eyes(w, q2) ==
    IF w.poi.current_location = "quantum_moon" /\ w.poi.current_poi = "surface"
    THEN IF w.nav.current_location = "convergence"
         THEN Result([w EXCEPT !.orch.eyes_closed = TRUE,
                               !.orch.eyes_closed_at_location = "convergence"],
                     FALSE, <<>>)
         ELSE Result([w EXCEPT !.nav = close_eyes_reset(@).nav], TRUE, <<>>)
    ELSE IF at_grove(w.poi)
    THEN IF ~has_knowledge(w.km, "complete_understanding")
         THEN Result([w EXCEPT !.orch.eyes_closed = TRUE,
                               !.orch.eyes_closed_at_location = "grove"],
                     FALSE, <<>>)
         ELSE Result(w, FALSE, <<>>)
    ELSE Result([w EXCEPT !.qs = q2], FALSE, <<>>)

\* the "open eyes" branch of _process_command
open_eyes(w) ==
    IF w.orch.eyes_closed_at_location = "convergence"
    THEN Result([w EXCEPT !.km  = add_knowledge(@, "grove_navigation_complete"),
                          !.poi = [arrive_at_grove(@) EXCEPT !.in_ship = FALSE],
                          !.nav.current_location = "grove",
                          !.orch.eyes_closed = FALSE,
                          !.orch.eyes_closed_at_location = "None"],
                TRUE, <<>>)
    ELSE IF w.orch.eyes_closed_at_location = "grove"
    THEN Result([w EXCEPT !.poi.current_poi = "surface",
                          !.nav = reset_navigation(@),
                          !.orch.eyes_closed = FALSE,
                          !.orch.eyes_closed_at_location = "None"],
                TRUE, <<>>)
    ELSE Result(w, TRUE, <<>>)

\* reset_physical_state with the whole knowledge set cleared
reset_physical_state_forgetful(w) ==
    [w EXCEPT !.poi  = _initialize_starting_position(
                           [@ EXCEPT !.current_location = HomeLocation,
                                     !.in_ship = FALSE, !.ship_flying = FALSE]),
              !.orch = [@ EXCEPT !.quantum_frequency_entered = FALSE,
                                 !.launch_code_entered = FALSE,
                                 !.eyes_closed = FALSE,
                                 !.eyes_closed_at_location = "None"],
              !.km.knowledge_gained = {}]

\* reset_physical_state without the write of in_ship
reset_physical_state_aboard(w) ==
    [w EXCEPT !.poi  = _initialize_starting_position(
                           [@ EXCEPT !.current_location = HomeLocation,
                                     !.ship_flying = FALSE]),
              !.orch = [@ EXCEPT !.quantum_frequency_entered = FALSE,
                                 !.launch_code_entered = FALSE,
                                 !.eyes_closed = FALSE,
                                 !.eyes_closed_at_location = "None"],
              !.km.knowledge_gained = @ \ {LoopLocalToken}]

\* reset_physical_state without the write of ship_flying
reset_physical_state_aloft(w) ==
    [w EXCEPT !.poi  = _initialize_starting_position(
                           [@ EXCEPT !.current_location = HomeLocation,
                                     !.in_ship = FALSE]),
              !.orch = [@ EXCEPT !.quantum_frequency_entered = FALSE,
                                 !.launch_code_entered = FALSE,
                                 !.eyes_closed = FALSE,
                                 !.eyes_closed_at_location = "None"],
              !.km.knowledge_gained = @ \ {LoopLocalToken}]

\* the position and flag writes both reset paths share: the player is put
\* at the home location, outside the ship, and the per-loop flags, the eye
\* state and the loop-local token are cleared
reset_physical_state(w) ==
    [w EXCEPT !.poi  = _initialize_starting_position(
                           [@ EXCEPT !.current_location = HomeLocation,
                                     !.in_ship = FALSE, !.ship_flying = FALSE]),
              !.orch = [@ EXCEPT !.quantum_frequency_entered = FALSE,
                                 !.launch_code_entered = FALSE,
                                 !.eyes_closed = FALSE,
                                 !.eyes_closed_at_location = "None"],
              !.km.knowledge_gained = @ \ {LoopLocalToken}]

\* supernova_reset with the quantum states cleared
supernova_reset_unobserved(w) ==
    reset_physical_state(
        [w EXCEPT !.lm  = trigger_supernova(@),
                  !.km  = increment_loop(@),
                  !.nav = reset_navigation(@),
                  !.qs  = QuantumInit])

\* supernova_reset without its call of reset_navigation
supernova_reset_lost(w) ==
    reset_physical_state(
        [w EXCEPT !.lm  = trigger_supernova(@),
                  !.km  = increment_loop(@)])

\* the supernova branch of _exploration_loop: trigger_supernova with its call
\* of increment_loop, then the resets, the navigator's included
supernova_reset(w) ==
    reset_physical_state(
        [w EXCEPT !.lm  = trigger_supernova(@),
                  !.km  = increment_loop(@),
                  !.nav = reset_navigation(@)])

\* death_reset without the write of cavern_has_collapsed
death_reset_flag_kept(w) ==
    reset_physical_state(
        [w EXCEPT !.km = increment_loop(@),
                  !.lm = [@ EXCEPT !.current_actions = 0,
                                   !.loop_count = @ + 1]])

\* death_reset without the increment of loop_manager.loop_count
death_reset_uncounted(w) ==
    reset_physical_state(
        [w EXCEPT !.km = increment_loop(@),
                  !.lm = [@ EXCEPT !.current_actions = 0,
                                   !.cavern_has_collapsed = FALSE]])

\* _handle_cavern_collapse with the player inside the cavern: the loop is
\* reset without trigger_supernova, and the navigator is left as it is
death_reset(w) ==
    reset_physical_state(
        [w EXCEPT !.km = increment_loop(@),
                  !.lm = [@ EXCEPT !.current_actions = 0,
                                   !.cavern_has_collapsed = FALSE,
                                   !.loop_count = @ + 1]])

\* the test of case 1 of _handle_cavern_collapse
in_quantum_cavern(p) ==
    p.current_location = "brittle_hollow" /\ p.current_poi = "quantum_cavern"

\* _handle_cavern_collapse with the death of case 1 wherever on Brittle
\* Hollow the player stands
_handle_cavern_collapse_fatal(w) ==
    IF w.poi.current_location = "brittle_hollow"
    THEN death_reset(w)
    ELSE w

\* OuterWildsOrchestrator._handle_cavern_collapse
_handle_cavern_collapse(w) ==
    IF in_quantum_cavern(w.poi)
    THEN death_reset(w)
    ELSE IF w.poi.current_location = "brittle_hollow"
    THEN [w EXCEPT !.km = add_knowledge(@, LoopLocalToken)]
    ELSE w

-----------------------------------------------------------------------------
(* The game: one action per command the menu of _get_command offers in the   *)
(* current state, each a whole pass of _exploration_loop up to the signal    *)
(* of the outer spend; pc holds the branch that signal selects, and the      *)
(* collapse handler and the supernova reset are the steps that branch        *)
(* takes.  Quit and Witness the End end the process and are not steps.       *)

\* the objects the orchestrator holds, as one record
World == [lm |-> lm, km |-> km, poi |-> poi, qs |-> qs, nav |-> nav, orch |-> orch]

\* the record of the last call made on the clock, and counts over the loop
\* so far, kept by the callers of the clock on its own
ClkInit ==
    [ op |-> "init", cost |-> 0, signal |-> "False", warned |-> FALSE,
      loop |-> 1, spends |-> 0, ones |-> TRUE, emitted |-> 0, warnings |-> 0 ]

\* the state of every object but the LoopManager after construction
RestInit ==
    /\ km   = KnowledgeInit
    /\ poi  = POISystemInit
    /\ qs   = QuantumInit
    /\ nav  = NavigatorInit
    /\ orch = OrchestratorInit
    /\ pc   = "command"
    /\ obs  = [step |-> "start", removed |-> FALSE]

\* OuterWildsOrchestrator.__init__
Init ==
    /\ lm  = LoopManagerInit(ConfiguredBudget)
    /\ clk = ClkInit
    /\ RestInit

\* lines 121-163 of _exploration_loop after _process_command has returned r:
\* the outer spend, skipped for a free command and at the grove, and the
\* dispatch on its signal
Commit(r) ==
    LET spend == r.costs /\ ~r.raised /\ ~at_grove(r.w.poi)
        s     == increment_action(r.w.lm, 1)
        sig   == IF spend THEN s.signal ELSE "none"
    IN  /\ lm'   = IF spend THEN s.lm ELSE r.w.lm
        /\ km'   = r.w.km
        /\ poi'  = r.w.poi
        /\ qs'   = r.w.qs
        /\ nav'  = r.w.nav
        /\ orch' = r.w.orch
        /\ pc'   = IF r.raised THEN "raised"
                   ELSE IF sig \in {"quantum_cavern_collapse", "supernova"} THEN sig
                   ELSE "command"
        /\ obs'  = [step |-> "command", removed |-> FALSE]
        /\ UNCHANGED clk

\* the menu of _get_command is the normal one: eyes open, not the cardinal
\* menu of the Quantum Moon surface
NormalMenu == pc = "command" /\ ~orch.eyes_closed /\ ~at_quantum_surface(World)

\* the branch of get_contextual_actions for a player outside the ship
Outside == NormalMenu /\ ~poi.ship_flying /\ ~poi.in_ship

\* Help, a cancelled menu, the separator, Navigation Unavailable
CmdFree ==
    /\ pc = "command"
    /\ Commit(Result(World, FALSE, <<>>))

CmdCheckLog ==
    /\ pc = "command" /\ ~orch.eyes_closed
    /\ Commit(_show_ship_log(World))

CmdGoTo(poi_id) ==
    /\ Outside
    /\ poi_id \in Range(get_available_pois(poi))
    /\ Commit(_handle_movement(World, poi_id))

\* the location id a "Visit ..." line of the space menu resolves to: the
\* Quantum Moon is listed as ??? until its frequency is known
VisitTargets ==
    {IF loc = "quantum_moon" /\ ~orch.quantum_frequency_entered
                             /\ ~has_knowledge(km, "quantum_moon_frequency")
     THEN "???" ELSE loc : loc \in Locations \ {poi.current_location}}

CmdVisit(location_id) ==
    /\ NormalMenu /\ poi.ship_flying
    /\ has_knowledge(km, "signal_scope_frequencies")
    /\ location_id \in VisitTargets
    /\ Commit(_land_at_location(World, location_id))

CmdEnterShip ==
    /\ pc = "command" /\ ~orch.eyes_closed
    /\ ~poi.ship_flying /\ ~poi.in_ship
    /\ get_current_poi_data(poi).has_ship
    /\ Commit(_handle_enter_ship(World))

CmdExitShip ==
    /\ NormalMenu /\ ~poi.ship_flying /\ poi.in_ship
    /\ Commit(_handle_exit_ship(World))

CmdLaunch(choice) ==
    /\ NormalMenu /\ ~poi.ship_flying /\ poi.in_ship
    /\ has_knowledge(km, "ship_operation")
    /\ choice \in (IF has_knowledge(km, "signal_scope_frequencies")
                   THEN destination_ids(World) \cup {NoChoice} ELSE {NoChoice})
    /\ Commit(_handle_launch(World, choice))

\* what the player types at the ship console
CodeInputs == {LaunchCode, "HEARTHIAN"}

CmdEnterLaunchCode(code) ==
    /\ NormalMenu /\ ~poi.ship_flying /\ poi.in_ship
    /\ ~has_knowledge(km, "ship_operation")
    /\ code \in CodeInputs
    /\ Commit(_handle_enter_launch_code(World, code))

CmdExamine(choice) ==
    /\ Outside
    /\ get_current_poi_data(poi).entries # <<>>
    /\ choice \in accessible(World) \cup {NoEntry}
    /\ Commit(_handle_examine(World, choice))

\* Close Eyes is on the cardinal menu, and on the normal menu outside the
\* ship where a registered quantum entry is; quantum_observation is called
\* in the last of the three branches only, which the two POIs of the quantum
\* moon never reach
CmdCloseEyes ==
    /\ pc = "command" /\ ~orch.eyes_closed
    /\ \/ at_quantum_surface(World)
       \/ /\ Outside
          /\ \E e \in _get_all_quantum_entries_at_poi(poi) : e \in all_entries
    /\ \E q2 \in (IF poi.current_location = "quantum_moon"
                  THEN {qs}
                  ELSE quantum_observation(qs, poi)) :
          Commit(close_eyes(World, q2))

CmdOpenEyes ==
    /\ pc = "command" /\ orch.eyes_closed
    /\ Commit(open_eyes(World))

CmdLook(direction) ==
    /\ pc = "command" /\ ~orch.eyes_closed /\ at_quantum_surface(World)
    /\ direction \in Directions
    /\ \E o \in observe_direction(nav, direction) :
          Commit(_handle_cardinal_navigation(World, o))

\* what the player types at the radio station: the frequency, another four
\* digits, and input that is not four digits
FrequencyInputs == {QuantumMoonFrequency, "1234", "55"}

CmdInsertFrequency(frequency_input) ==
    /\ Outside
    /\ poi.current_location = "timber_hearth" /\ poi.current_poi = "radio_station"
    /\ has_knowledge(km, "signal_scope_frequencies")
    /\ frequency_input \in FrequencyInputs
    /\ Commit(_handle_insert_frequency(World, frequency_input))

\* what a step after the command records: which step it was, and whether
\* it took the loop-local token out of the knowledge set
Handled(step) ==
    [step |-> step, removed |-> LoopLocalToken \in km.knowledge_gained
                                 /\ LoopLocalToken \notin km'.knowledge_gained]

\* the collapse branch of _exploration_loop
HandleCollapse ==
    /\ pc = "quantum_cavern_collapse"
    /\ in_quantum_cavern(poi) => lm.loop_count < MaxLoop
    /\ LET w == _handle_cavern_collapse(World)
       IN  /\ lm' = w.lm /\ km' = w.km /\ poi' = w.poi /\ qs' = w.qs
           /\ nav' = w.nav /\ orch' = w.orch
    /\ pc'  = "command"
    /\ obs' = Handled(IF in_quantum_cavern(poi) THEN "death reset" ELSE "collapse handled")
    /\ UNCHANGED clk

\* the supernova branch of _exploration_loop
ResetSupernova ==
    /\ pc = "supernova"
    /\ lm.loop_count < MaxLoop
    /\ LET w == supernova_reset(World)
       IN  /\ lm' = w.lm /\ km' = w.km /\ poi' = w.poi /\ qs' = w.qs
           /\ nav' = w.nav /\ orch' = w.orch
    /\ pc'  = "command"
    /\ obs' = Handled("supernova reset")
    /\ UNCHANGED clk

Next ==
    \/ CmdFree
    \/ CmdCheckLog
    \/ \E poi_id \in {q[2] : q \in AllPois} : CmdGoTo(poi_id)
    \/ \E location_id \in Locations \cup {"???"} : CmdVisit(location_id)
    \/ CmdEnterShip
    \/ CmdExitShip
    \/ \E choice \in Locations \cup {NoChoice} : CmdLaunch(choice)
    \/ \E code \in CodeInputs : CmdEnterLaunchCode(code)
    \/ \E choice \in all_entries \cup {NoEntry} : CmdExamine(choice)
    \/ CmdCloseEyes
    \/ CmdOpenEyes
    \/ \E direction \in Directions : CmdLook(direction)
    \/ \E frequency_input \in FrequencyInputs : CmdInsertFrequency(frequency_input)
    \/ HandleCollapse
    \/ ResetSupernova

Spec == Init /\ [][Next]_vars

-----------------------------------------------------------------------------
(* The clock on its own: a caller that spends 1 or 2 actions at a time and  *)
(* may act on a supernova signal (the orchestrator's outer spend) or drop   *)
(* it (its spends inside movement, launch and landing).                     *)

\* the budgets the clock is constructed with
Thresholds == {10, MidLoopAction, 18, DefaultBudget}

\* the costs a spend is called with: 1, and 2 for a landing
SpendCosts == {1, 2}

InitClock ==
    /\ lm \in {LoopManagerInit(t) : t \in Thresholds}
    /\ clk = ClkInit
    /\ RestInit

\* one call of increment_action(action_cost); the counts restart with the
\* first spend of a loop
ClockSpend(action_cost) ==
    /\ UNCHANGED <<km, poi, qs, nav, orch, pc, obs>>
    /\ lm.current_actions < lm.actions_until_supernova + MaxOverrun
    /\ LET r     == increment_action(lm, action_cost)
           fresh == clk.op = "trigger_supernova"
           c     == IF fresh THEN ClkInit ELSE clk
       IN  /\ lm' = r.lm
           /\ clk' = [ op       |-> "increment_action",
                       cost     |-> action_cost,
                       signal   |-> r.signal,
                       warned   |-> r.warned,
                       loop     |-> lm.loop_count,
                       spends   |-> c.spends + 1,
                       ones     |-> (c.ones /\ action_cost = 1),
                       emitted  |-> c.emitted + (IF r.signal = "quantum_cavern_collapse" THEN 1 ELSE 0),
                       warnings |-> c.warnings + (IF r.warned THEN 1 ELSE 0) ]

\* the caller acts on the supernova signal it was just given
ClockSupernova ==
    /\ clk.op = "increment_action"
    /\ clk.signal = "supernova"
    /\ lm.loop_count < MaxLoop
    /\ lm' = trigger_supernova(lm)
    /\ clk' = [clk EXCEPT !.op = "trigger_supernova"]
    /\ UNCHANGED <<km, poi, qs, nav, orch, pc, obs>>

NextClock ==
    \/ \E action_cost \in SpendCosts : ClockSpend(action_cost)
    \/ ClockSupernova

SpecClock == InitClock /\ [][NextClock]_vars

-----------------------------------------------------------------------------
(* The knowledge store on its own: a caller that discovers entries in any   *)
(* order, any number of times, looks at the log and lets loops pass.        *)

\* the ids discover_entry is called with: every entry of the content, those
\* register_entries skipped included
DiscoverInputs == AllEntryIds

\* the last call, what discover_entry returned, the store as it was before
\* the call, and the entries discover_entry has been called with so far
KnowClkInit ==
    [ op |-> "init", entry |-> <<>>, ret |-> FALSE, before |-> KnowledgeInit,
      called_before |-> {}, called |-> {} ]

InitKnow ==
    /\ lm  = LoopManagerInit(ConfiguredBudget)
    /\ clk = KnowClkInit
    /\ RestInit

KnowDiscover(entry_id) ==
    /\ LET r == discover_entry(km, entry_id)
       IN  /\ km'  = r.km
           /\ clk' = [ op |-> "discover_entry", entry |-> entry_id, ret |-> r.ret,
                       before |-> km, called_before |-> clk.called,
                       called |-> clk.called \cup {entry_id} ]
    /\ UNCHANGED <<lm, poi, qs, nav, orch, pc, obs>>

KnowCheckLog ==
    /\ km'  = clear_new_entries(km)
    /\ clk' = [clk EXCEPT !.op = "clear_new_entries"]
    /\ UNCHANGED <<lm, poi, qs, nav, orch, pc, obs>>

KnowNextLoop ==
    /\ km.current_loop < MaxLoop
    /\ km'  = increment_loop(km)
    /\ clk' = [clk EXCEPT !.op = "increment_loop"]
    /\ UNCHANGED <<lm, poi, qs, nav, orch, pc, obs>>

NextKnow ==
    \/ \E entry_id \in DiscoverInputs : KnowDiscover(entry_id)
    \/ KnowCheckLog
    \/ KnowNextLoop

SpecKnow == InitKnow /\ [][NextKnow]_vars

-----------------------------------------------------------------------------
(* The quantum system on its own: observations made at any POI of the       *)
(* content.                                                                  *)

\* the last call, the POI it was made at and the states before it
QuantumClkInit ==
    [ op |-> "init", at |-> <<HomeLocation, LocationData[HomeLocation].starting_poi>>,
      before |-> QuantumInit ]

InitQuantum ==
    /\ lm  = LoopManagerInit(ConfiguredBudget)
    /\ clk = QuantumClkInit
    /\ RestInit

\* one call of quantum_observation(location_system) with the player at POI at
QuantumObserve(at) ==
    /\ \E q2 \in quantum_observation(qs, [poi EXCEPT !.current_location = at[1],
                                                     !.current_poi = at[2]]) :
          qs' = q2
    /\ clk' = [op |-> "quantum_observation", at |-> at, before |-> qs]
    /\ UNCHANGED <<lm, km, poi, nav, orch, pc, obs>>

NextQuantum == \E at \in AllPois : QuantumObserve(at)

SpecQuantum == InitQuantum /\ [][NextQuantum]_vars

-----------------------------------------------------------------------------
(* The navigator on its own: a caller that observes directions, closes its  *)
(* eyes and resets, in any order; an exception leaves the navigator as it   *)
(* was and the caller goes on.                                               *)

\* what observe_direction is called with: the keys of direction_map and a
\* string that is no key
DirectionInputs == CanonicalDirections \cup {"up"}

\* the navigator calls followed between two calls of reset_navigation
MaxCalls == 6

\* the last call, its direction, the node before it, how it ended, and the
\* number of calls since the navigator was last reset
NavClkInit ==
    [ op |-> "init", direction |-> "None", before |-> "platform",
      raised |-> FALSE, reached_grove |-> FALSE, calls |-> 0 ]

InitNav ==
    /\ lm  = LoopManagerInit(ConfiguredBudget)
    /\ clk = NavClkInit
    /\ RestInit

NavObserve(direction) ==
    /\ clk.calls < MaxCalls
    /\ \E o \in observe_direction(nav, direction) :
          /\ nav' = o.nav
          /\ clk' = [ op |-> "observe_direction", direction |-> direction,
                      before |-> nav.current_location, raised |-> o.raised,
                      reached_grove |-> o.reached_grove,
                      calls |-> clk.calls + 1 ]
    /\ UNCHANGED <<lm, km, poi, qs, orch, pc, obs>>

NavCloseEyes ==
    /\ clk.calls < MaxCalls
    /\ LET o == close_eyes_reset(nav)
       IN  /\ nav' = o.nav
           /\ clk' = [ op |-> "close_eyes_reset", direction |-> "None",
                       before |-> nav.current_location, raised |-> o.raised,
                       reached_grove |-> o.reached_grove,
                       calls |-> clk.calls + 1 ]
    /\ UNCHANGED <<lm, km, poi, qs, orch, pc, obs>>

NavReset ==
    /\ nav' = reset_navigation(nav)
    /\ clk' = [ op |-> "reset_navigation", direction |-> "None",
                before |-> nav.current_location, raised |-> FALSE,
                reached_grove |-> FALSE, calls |-> 0 ]
    /\ UNCHANGED <<lm, km, poi, qs, orch, pc, obs>>

NextNav ==
    \/ \E direction \in DirectionInputs : NavObserve(direction)
    \/ NavCloseEyes
    \/ NavReset

SpecNav == InitNav /\ [][NextNav]_vars

-----------------------------------------------------------------------------
(* The POISystem on its own: a caller that moves, boards, leaves, launches  *)
(* and lands with any argument in any order, next to a knowledge store that *)
(* gains tokens.                                                             *)

\* the POI ids move_to_poi is called with: every POI of the content, the
\* undefined POI a connection names, and an id the content does not have
PoiInputs == {a[2] : a \in AllPois} \cup {"nowhere", "old_mine"}

\* the location ids land_at_location is called with: every location of the
\* content and an id the content does not have
LandInputs == Locations \cup {"dark_bramble"}

\* the tokens the locations of the content require
GateTokens == UNION {LocationData[l].requires_knowledge : l \in Locations}

\* the last call, its argument and what it returned; the message is kept for
\* the calls on the ship
PoiClkInit ==
    [op |-> "init", arg |-> "None", success |-> FALSE, cost |-> 0, message |-> "None"]

InitPoi ==
    /\ lm  = LoopManagerInit(ConfiguredBudget)
    /\ clk = PoiClkInit
    /\ RestInit

PoiMove(poi_id) ==
    /\ LET r == move_to_poi(poi, poi_id)
       IN  /\ poi' = r.poi
           /\ clk' = [op |-> "move_to_poi", arg |-> poi_id,
                      success |-> r.success, cost |-> r.cost, message |-> "None"]
    /\ UNCHANGED <<lm, km, qs, nav, orch, pc, obs>>

PoiEnterShip ==
    /\ LET r == enter_ship(poi)
       IN  /\ poi' = r.poi
           /\ clk' = [op |-> "enter_ship", arg |-> "None", success |-> r.success, cost |-> 0,
                      message |-> r.message]
    /\ UNCHANGED <<lm, km, qs, nav, orch, pc, obs>>

PoiExitShip ==
    /\ LET r == exit_ship(poi)
       IN  /\ poi' = r.poi
           /\ clk' = [op |-> "exit_ship", arg |-> "None", success |-> r.success, cost |-> 0,
                      message |-> r.message]
    /\ UNCHANGED <<lm, km, qs, nav, orch, pc, obs>>

PoiLaunch ==
    /\ LET r == launch_ship(poi)
       IN  /\ poi' = r.poi
           /\ clk' = [op |-> "launch_ship", arg |-> "None", success |-> r.success, cost |-> 0,
                      message |-> r.message]
    /\ UNCHANGED <<lm, km, qs, nav, orch, pc, obs>>

PoiLand(location_id) ==
    /\ LET r == land_at_location(poi, km, location_id)
       IN  /\ poi' = r.poi
           /\ clk' = [op |-> "land_at_location", arg |-> location_id,
                      success |-> r.success, cost |-> r.cost, message |-> "None"]
    /\ UNCHANGED <<lm, km, qs, nav, orch, pc, obs>>

\* LocationSystem.can_visit_location, asked about a location before a landing
PoiCanVisit(location_id) ==
    /\ clk' = [op |-> "can_visit_location", arg |-> location_id,
                success |-> can_visit_location(km, location_id), cost |-> 0,
                message |-> "None"]
    /\ UNCHANGED <<lm, km, poi, qs, nav, orch, pc, obs>>

\* KnowledgeMenu.add_knowledge, called between two calls on the POISystem
PoiLearn(token) ==
    /\ token \notin km.knowledge_gained
    /\ km'  = add_knowledge(km, token)
    /\ clk' = [op |-> "add_knowledge", arg |-> token, success |-> TRUE, cost |-> 0,
                message |-> "None"]
    /\ UNCHANGED <<lm, poi, qs, nav, orch, pc, obs>>

NextPoi ==
    \/ \E poi_id \in PoiInputs : PoiMove(poi_id)
    \/ PoiEnterShip
    \/ PoiExitShip
    \/ PoiLaunch
    \/ \E location_id \in LandInputs : PoiLand(location_id)
    \/ \E location_id \in LandInputs : PoiCanVisit(location_id)
    \/ \E token \in GateTokens : PoiLearn(token)

SpecPoi == InitPoi /\ [][NextPoi]_vars

-----------------------------------------------------------------------------
(* The access check of the ship log on its own: the store gains entries,    *)
(* tokens and dialogue topics, and can_access_entry is asked about entry    *)
(* data of every shape of requirements.                                      *)

\* dialogue topics asked in the log harness
MaxAsked == 2

\* the tokens entry data of the log harness requires
AccessTokens == {"ship_operation", "quantum_insight"}

\* the entry data can_access_entry is asked about: every combination of
\* required tokens, a dialogue count and an exploration threshold in
\* hundredths (0.5 in the content is 50)
EntryShapes ==
    [ requires_knowledge : SUBSET AccessTokens,
      requires_dialogue_count : {0, 2},
      requires_exploration_percentage : {0, 50} ]

\* the last call, the entry data it was about and what it returned
LogClkInit ==
    [ op |-> "init", allowed |-> FALSE, reason |-> "",
      entry_data |-> [ requires_knowledge |-> {}, requires_dialogue_count |-> 0,
                       requires_exploration_percentage |-> 0 ] ]

InitLog ==
    /\ lm  = LoopManagerInit(ConfiguredBudget)
    /\ clk = LogClkInit
    /\ RestInit

LogAccess(entry_data) ==
    /\ LET r == entry_access(km, entry_data)
       IN  clk' = [ op |-> "can_access_entry", allowed |-> r.allowed,
                    reason |-> r.reason, entry_data |-> entry_data ]
    /\ UNCHANGED <<lm, km, poi, qs, nav, orch, pc, obs>>

LogDiscover(entry_id) ==
    /\ km'  = discover_entry(km, entry_id).km
    /\ clk' = [clk EXCEPT !.op = "discover_entry"]
    /\ UNCHANGED <<lm, poi, qs, nav, orch, pc, obs>>

LogLearn(token) ==
    /\ km'  = add_knowledge(km, token)
    /\ clk' = [clk EXCEPT !.op = "add_knowledge"]
    /\ UNCHANGED <<lm, poi, qs, nav, orch, pc, obs>>

LogAsk ==
    /\ km.dialogue_topics_asked < MaxAsked
    /\ km'  = increment_dialogue_asked(km)
    /\ clk' = [clk EXCEPT !.op = "increment_dialogue_asked"]
    /\ UNCHANGED <<lm, poi, qs, nav, orch, pc, obs>>

NextLog ==
    \/ \E entry_data \in EntryShapes : LogAccess(entry_data)
    \/ \E entry_id \in all_entries : LogDiscover(entry_id)
    \/ \E token \in AccessTokens : LogLearn(token)
    \/ LogAsk

SpecLog == InitLog /\ [][NextLog]_vars

-----------------------------------------------------------------------------
(* NPCSystem (src/src/npc_system.py) and the "talk to" command, on their own. *)
(* content/data/npcs.json is read at start-up; the model fixes one such      *)
(* content, with an NPC of each kind: hornfels, whose dialogues are picked   *)
(* by priority, and solanum, whose dialogues are picked from a menu.  Every  *)
(* optional field is written out at the default its .get() gives; None is   *)
(* "None".  dialogue_history is the NPCSystem's only state and is kept in    *)
(* clk, next to the last call, the NPC it was about and what it returned,     *)
(* and the last answer of can_access_entry for an entry gated by a dialogue  *)
(* count.                                                                    *)

\* topics picked in one conversation with a menu
MaxPicks == 2

\* npc_data["npcs"]
NpcData ==
    [ hornfels |->
        [ dialogue_menu |-> FALSE,
          dialogues |->
            << [ id |-> "welcome", requires_knowledge |-> {}, requires_discoveries |-> {},
                 grants_knowledge |-> "hornfels_met", priority |-> 1 ],
               [ id |-> "museum", requires_knowledge |-> {},
                 requires_discoveries |-> {<<"timber_hearth", "signal_log">>},
                 grants_knowledge |-> "None", priority |-> 2 ] >> ],
      solanum |->
        [ dialogue_menu |-> TRUE,
          dialogues |->
            << [ id |-> "identity", requires_knowledge |-> {}, requires_discoveries |-> {},
                 grants_knowledge |-> "solanum_met", priority |-> 0 ],
               [ id |-> "sixth_location", requires_knowledge |-> {"solanum_met"},
                 requires_discoveries |-> {},
                 grants_knowledge |-> "None", priority |-> 0 ] >> ] ]

\* NPCSystem._can_access_dialogue
_can_access_dialogue(dialogue, k) ==
    IF dialogue.requires_knowledge # {}
    THEN has_all_knowledge(k, dialogue.requires_knowledge)
    ELSE IF dialogue.requires_discoveries # {}
    THEN dialogue.requires_discoveries \subseteq k.entries_discovered
    ELSE TRUE

\* NPCSystem._get_best_dialogue: the index of the dialogue it returns, 0 for
\* None; the sort is stable, so the first of the highest priority is taken
_get_best_dialogue(history, npc_info, k) ==
    LET d         == npc_info.dialogues
        available == {i \in DOMAIN d : d[i].id \notin history /\ _can_access_dialogue(d[i], k)}
    IN  IF available = {}
        THEN 0
        ELSE CHOOSE i \in available :
                 \A j \in available : \/ d[i].priority > d[j].priority
                                      \/ d[i].priority = d[j].priority /\ i <= j

\* the topics _show_dialogue_menu lists: the accessible dialogues, and the
\* locked ones that name a required knowledge
listed_topics(npc_info, k) ==
    {i \in DOMAIN npc_info.dialogues :
        \/ _can_access_dialogue(npc_info.dialogues[i], k)
        \/ npc_info.dialogues[i].requires_knowledge # {}}

\* NPCSystem._show_dialogue_menu, for the topics picked in turn and the way
\* the conversation ends: "end" is End conversation after the last pick,
\* "back" is the Back line of the topic menu.  A locked pick shows a hint
\* and the menu again.
_show_dialogue_menu(history, npc_info, k, picks, ending) ==
    LET d     == npc_info.dialogues
        heard == {picks[i] : i \in {j \in DOMAIN picks : _can_access_dialogue(d[picks[j]], k)}}
        h1    == history \cup {d[i].id : i \in heard}
    IN  IF listed_topics(npc_info, k) = {}
        THEN [history |-> history, granted |-> "None"]
        ELSE IF ending = "end"
        THEN [history |-> h1, granted |-> d[picks[Len(picks)]].grants_knowledge]
        ELSE [history |-> h1, granted |-> "None"]

\* NPCSystem.talk_to_npc, called with the interactions object
talk_to_npc(history, npc_id, k, picks, ending) ==
    IF npc_id \notin DOMAIN NpcData
    THEN [history |-> history, granted |-> "None"]
    ELSE IF NpcData[npc_id].dialogue_menu
    THEN _show_dialogue_menu(history, NpcData[npc_id], k, picks, ending)
    ELSE LET best == _get_best_dialogue(history, NpcData[npc_id], k)
         IN  IF best = 0
             THEN [history |-> history, granted |-> "None"]
             ELSE [history |-> history \cup {NpcData[npc_id].dialogues[best].id},
                   granted |-> NpcData[npc_id].dialogues[best].grants_knowledge]

\* OuterWildsOrchestrator._handle_talk_to_npc, for the NPCs of the current
\* POI: the new KnowledgeMenu and the new dialogue_history
_handle_talk_to_npc(k, history, npcs, npc_name, picks, ending) ==
    IF npc_name \notin Range(npcs)
    THEN [km |-> k, history |-> history, granted |-> "None"]
    ELSE LET t == talk_to_npc(history, npc_name, k, picks, ending)
         IN  [km      |-> IF t.granted # "None" THEN add_knowledge(k, t.granted) ELSE k,
              history |-> t.history,
              granted |-> t.granted]

\* the entry data of an entry gated by a dialogue count of 1, the least N > 0
GatedEntry ==
    [ requires_knowledge |-> {}, requires_dialogue_count |-> 1,
      requires_exploration_percentage |-> 0 ]

TalkClkInit ==
    [ dialogue_history |-> {}, op |-> "init", npc |-> "None",
      granted |-> "None", allowed |-> FALSE, reason |-> "" ]

InitTalk ==
    /\ lm  = LoopManagerInit(ConfiguredBudget)
    /\ clk = TalkClkInit
    /\ RestInit

\* a "talk to" command at a POI whose NPCs are npcs.  The picks are topics
\* the menu lists, and End conversation follows a dialogue that was shown.
TalkToNpc(npcs, npc_name, picks, ending) ==
    /\ npc_name \in DOMAIN NpcData
    /\ IF npc_name \in Range(npcs) /\ NpcData[npc_name].dialogue_menu
       THEN /\ Range(picks) \subseteq listed_topics(NpcData[npc_name], km)
            /\ ending = "end" =>
                  /\ picks # <<>>
                  /\ _can_access_dialogue(NpcData[npc_name].dialogues[picks[Len(picks)]], km)
       ELSE picks = <<>> /\ ending = "back"
    /\ LET r == _handle_talk_to_npc(km, clk.dialogue_history, npcs, npc_name, picks, ending)
       IN  /\ km'  = r.km
           /\ clk' = [clk EXCEPT !.dialogue_history = r.history,
                                 !.op = "talk_to_npc",
                                 !.npc = IF npc_name \in Range(npcs) THEN npc_name ELSE "None",
                                 !.granted = r.granted]
    /\ UNCHANGED <<lm, poi, qs, nav, orch, pc, obs>>

\* a talk command at a POI where both NPCs are
TalkHere ==
    \E npc_name \in DOMAIN NpcData, ending \in {"end", "back"} :
        \E picks \in UNION {[1..n -> 1..2] : n \in 0..MaxPicks} :
            TalkToNpc(<<"hornfels", "solanum">>, npc_name, picks, ending)

\* can_access_entry for the gated entry
TalkAccess ==
    /\ LET r == entry_access(km, GatedEntry)
       IN  clk' = [clk EXCEPT !.op = "can_access_entry",
                              !.allowed = r.allowed, !.reason = r.reason]
    /\ UNCHANGED <<lm, km, poi, qs, nav, orch, pc, obs>>

\* an entry read between conversations
TalkDiscover(entry_id) ==
    /\ km'  = discover_entry(km, entry_id).km
    /\ clk' = [clk EXCEPT !.op = "discover_entry"]
    /\ UNCHANGED <<lm, poi, qs, nav, orch, pc, obs>>

NextTalk ==
    \/ TalkHere
    \/ \E npc_name \in DOMAIN NpcData : TalkToNpc(<<>>, npc_name, <<>>, "back")
    \/ TalkAccess
    \/ \E entry_id \in all_entries : TalkDiscover(entry_id)

\* the player keeps talking: there is always somebody to talk to, and the
\* driver reads commands for as long as the player gives them
SpecTalk == InitTalk /\ [][NextTalk]_vars /\ WF_vars(TalkHere)

-----------------------------------------------------------------------------
(* Claims about the clock, checked under SpecClock. *)

\* C5: with the budget at 22 and only cost-1 spends from counter 0 in loop 1,
\* the 14th spend is the only one that returns the collapse signal (so the
\* 15th does not), the 22nd returns the supernova signal, and after the
\* reset that follows it the loop counter is 2.
C5_Scenario ==
    (lm.actions_until_supernova = DefaultBudget /\ clk.ones /\ clk.loop = 1) =>
        /\ clk.op = "increment_action" =>
               /\ lm.current_actions = clk.spends
               /\ (clk.signal = "quantum_cavern_collapse") <=> (clk.spends = 14)
               /\ (clk.spends = 22) => (clk.signal = "supernova")
               /\ (clk.spends < 22) => (clk.signal # "supernova")
        /\ (clk.op = "trigger_supernova" /\ clk.spends = 22) =>
               /\ lm.loop_count = 2
               /\ clk.emitted = 1

\* the scenario has run to its end: 22 cost-1 spends in loop 1, then the reset
C5_Witness ==
    /\ lm.actions_until_supernova = DefaultBudget
    /\ clk.op = "trigger_supernova"
    /\ clk.ones /\ clk.loop = 1 /\ clk.spends = 22
    /\ lm.loop_count = 2

\* C6 as stated, with the budget at 22: the spend that brings the counter from below 14 to 14 or
\* more returns the collapse signal whatever its cost, no other spend does,
\* and so a loop that has passed 14 has had exactly one collapse signal.
C6_Original ==
    lm.actions_until_supernova = DefaultBudget =>
    /\ clk.op = "increment_action" =>
           ((clk.signal = "quantum_cavern_collapse") <=>
                (lm.current_actions - clk.cost < MidLoopAction /\ lm.current_actions >= MidLoopAction))
    /\ (clk.op = "increment_action" /\ lm.current_actions >= MidLoopAction) => clk.emitted = 1

\* C7 as stated: for every budget, a spend that leaves the counter at or
\* above the budget returns the supernova signal.
C7_Original ==
    (clk.op = "increment_action" /\ lm.current_actions >= lm.actions_until_supernova)
        => clk.signal = "supernova"

\* C7 amended: for every budget above the mid-loop count 14 and every spend
\* cost, a spend that leaves the counter at or above the budget returns the
\* supernova signal.
C7_ResetAtThreshold ==
    (/\ clk.op = "increment_action"
     /\ lm.actions_until_supernova > MidLoopAction
     /\ lm.current_actions >= lm.actions_until_supernova)
        => clk.signal = "supernova"

\* a cost-2 spend has carried the counter past a budget above 14
C7_Witness ==
    /\ clk.op = "increment_action"
    /\ clk.cost = 2
    /\ lm.actions_until_supernova > MidLoopAction
    /\ lm.current_actions > lm.actions_until_supernova
    /\ clk.signal = "supernova"

\* C9 as stated: a loop that runs to its supernova reset has had exactly one
\* warning, given by the spend that left the counter at the budget minus 4.
C9_Original ==
    /\ (clk.op = "increment_action" /\ clk.warned) =>
           lm.current_actions = lm.actions_until_supernova - WarningOffset
    /\ (clk.op = "trigger_supernova" /\ lm.actions_until_supernova = DefaultBudget) =>
           clk.warnings = 1

-----------------------------------------------------------------------------
(* Claims about the knowledge store, checked under SpecKnow. *)

\* C2: for a registered entry the first discover_entry returns true and every
\* later one false; the first call adds the entry to the discovered set,
\* adds its grants to the knowledge set, adds one to the badge counter and
\* records the current loop, and a later call leaves the discovered set, the
\* knowledge set, the badge counter and the loops of discovery as they were.
C2_DiscoverOnce ==
    (clk.op = "discover_entry" /\ clk.entry \in all_entries) =>
        /\ clk.ret <=> clk.entry \notin clk.called_before
        /\ IF clk.ret
           THEN /\ km.entries_discovered = clk.before.entries_discovered \cup {clk.entry}
                /\ km.knowledge_gained =
                       clk.before.knowledge_gained \cup _get_entry_data(clk.entry).knowledge_grants
                /\ km.new_entries_since_last_view = clk.before.new_entries_since_last_view + 1
                /\ km.discovered_loop =
                       [clk.before.discovered_loop EXCEPT ![clk.entry] = km.current_loop]
           ELSE km = clk.before

\* an entry with a grant, discovered in loop 1, has been discovered again in
\* a later loop after the log was looked at
C2_Witness ==
    /\ clk.op = "discover_entry"
    /\ clk.entry \in all_entries
    /\ _get_entry_data(clk.entry).knowledge_grants # {}
    /\ ~clk.ret
    /\ km.current_loop > 1
    /\ km.discovered_loop[clk.entry] = 1
    /\ km.new_entries_since_last_view = 0

-----------------------------------------------------------------------------
(* Claims about the quantum system, checked under SpecQuantum. *)

\* C10: an observation leaves every quantum entry at the POI in a state of
\* 1..6 other than the state it had just before, leaves the other entries
\* alone, and every state of 1..6 other than the old one (any of 1..6 for
\* an entry never observed) is an outcome the roll can give.
C10_Reroll ==
    /\ clk.op = "quantum_observation" =>
           \A e \in QuantumEntryIds :
              IF e \in _get_all_quantum_entries_at_poi(
                           [poi EXCEPT !.current_location = clk.at[1],
                                       !.current_poi = clk.at[2]])
              THEN qs[e] \in 1..6 /\ qs[e] # clk.before[e]
              ELSE qs[e] = clk.before[e]
    /\ \A old \in 0..6 : \A s \in 1..6 : s # old => s \in _get_new_state(old)

\* an entry in the key state has been observed again and left a state other
\* than the key state
C10_Witness ==
    /\ clk.op = "quantum_observation"
    /\ clk.at = <<"brittle_hollow", "quantum_cavern">>
    /\ clk.before[<<"brittle_hollow", "cavern_text">>] = KeyState
    /\ qs[<<"brittle_hollow", "cavern_text">>] = 1

\* the quantum-flagged entries of the content that the POI at lists
QuantumAt(at) ==
    {e \in QuantumEntryIds :
        /\ e[1] = at[1]
        /\ \E i \in DOMAIN LocationData[at[1]].points_of_interest[at[2]].entries :
              LocationData[at[1]].points_of_interest[at[2]].entries[i] = e[2]}

\* C11: one quantum observation at a POI gives every quantum-flagged entry
\* listed at that POI, registered in the ship log or not and discovered or
\* not, a new state in the same step, and changes nothing else: the states
\* of the quantum entries of the other POIs, the discovered set, the
\* knowledge set, the position, the action counter and the loop counter are
\* what they were; at a POI without quantum entries no state changes.
C11_ObserveWholePoi ==
    clk.op = "quantum_observation" =>
        /\ \A e \in QuantumAt(clk.at) : qs[e] \in QuantumStates /\ qs[e] # clk.before[e]
        /\ \A e \in QuantumEntryIds \ QuantumAt(clk.at) : qs[e] = clk.before[e]
        /\ QuantumAt(clk.at) = {} => qs = clk.before
        /\ km = KnowledgeInit
        /\ poi = POISystemInit
        /\ lm = LoopManagerInit(ConfiguredBudget)

\* an observation at the grove has moved both of its quantum entries, the
\* registered one and the one the ship log does not register, and has left
\* the entry of the cavern in the state it had
C11_Witness ==
    /\ clk.op = "quantum_observation"
    /\ clk.at = <<"quantum_moon", "grove">>
    /\ <<"quantum_moon", "grove_echo">> \notin all_entries
    /\ clk.before[<<"quantum_moon", "grove_inscription">>] = 2
    /\ clk.before[<<"quantum_moon", "grove_echo">>] = 4
    /\ clk.before[<<"brittle_hollow", "cavern_text">>] = 3
    /\ qs[<<"quantum_moon", "grove_inscription">>] = KeyState
    /\ qs[<<"quantum_moon", "grove_echo">>] = 1
    /\ qs[<<"brittle_hollow", "cavern_text">>] = 3

\* an observation where no quantum entry is has changed nothing
C11_WitnessNone ==
    /\ clk.op = "quantum_observation"
    /\ clk.at = <<"timber_hearth", "radio_station">>
    /\ qs = clk.before
    /\ qs[<<"brittle_hollow", "cavern_text">>] = 5

\* C29: the completion percentage is 100 * |discovered| / |registered|, and
\* 0 when nothing is registered; an entry configured with adds_to_log = false
\* is not registered and is never in the discovered set; the discovered set
\* is a subset of the registered entries, so the percentage is between 0 and
\* 100.
C29_Completion ==
    LET registered == { <<"timber_hearth", "signal_log">>,
                        <<"brittle_hollow", "cavern_text">>,
                        <<"quantum_moon", "grove_inscription">> }
        unlogged   == { <<"timber_hearth", "campfire_note">>,
                        <<"quantum_moon", "grove_echo">> }
        pct        == get_completion_percentage(km, Cardinality(all_entries))
    IN  /\ all_entries = registered
        /\ \A e \in unlogged : ~_get_entry_data(e).adds_to_log /\ e \notin km.entries_discovered
        /\ km.entries_discovered \subseteq registered
        /\ pct[1] * Cardinality(registered) = 100 * Cardinality(km.entries_discovered) * pct[2]
        /\ 0 <= pct[1] /\ pct[1] <= 100 * pct[2]
        /\ get_completion_percentage(km, 0)[1] = 0

\* discover_entry has been called with an entry the log does not register,
\* after every registered entry was discovered: completion stays at 100
C29_Witness ==
    /\ clk.op = "discover_entry"
    /\ clk.entry = <<"timber_hearth", "campfire_note">>
    /\ ~clk.ret
    /\ Cardinality(km.entries_discovered) = 3
    /\ get_completion_percentage(km, Cardinality(all_entries)) = <<300, 3>>

-----------------------------------------------------------------------------
(* Claims about the navigator, checked under SpecNav. *)

\* C14: each of platform, crystals, tree and arch has exactly one stable
\* direction, and observing it always moves the navigator to the fixed
\* successor, with no random choice: platform east -> crystals, crystals
\* west -> tree, tree north -> arch, arch south -> convergence.
C14_StableEdges ==
    LET edge == [ platform |-> <<"east", "crystals">>,
                  crystals |-> <<"west", "tree">>,
                  tree     |-> <<"north", "arch">>,
                  arch     |-> <<"south", "convergence">> ]
    IN  /\ \A n \in DOMAIN edge : DOMAIN StablePath[n] = {edge[n][1]}
        /\ \A n \in DOMAIN edge :
              \A o \in observe_direction([current_location |-> n], edge[n][1]) :
                 o.nav.current_location = edge[n][2]
        /\ ( /\ clk.op = "observe_direction"
             /\ clk.before \in DOMAIN edge
             /\ clk.direction = edge[clk.before][1] )
              => /\ nav.current_location = edge[clk.before][2]
                 /\ ~clk.raised
                 /\ ~clk.reached_grove

\* the stable edge of the arch has been followed to convergence
C14_Witness ==
    /\ clk.op = "observe_direction"
    /\ clk.before = "arch"
    /\ clk.direction = "south"
    /\ nav.current_location = "convergence"

\* C15: from platform, crystals, tree or arch, observing a cardinal direction
\* that is not the node's stable direction moves the navigator to one of the
\* other three of these four nodes, never to the current node, to convergence
\* or to the grove; and each of the other three is a possible outcome.
C15_RandomJump ==
    LET four   == {"platform", "crystals", "tree", "arch"}
        stable == [ platform |-> "east", crystals |-> "west",
                    tree |-> "north", arch |-> "south" ]
    IN  /\ ( /\ clk.op = "observe_direction"
             /\ clk.before \in four
             /\ clk.direction \in {"east", "west", "north", "south"} \ {stable[clk.before]} )
              => /\ nav.current_location \in four \ {clk.before}
                 /\ ~clk.raised
                 /\ ~clk.reached_grove
        /\ \A n \in four :
              \A d \in {"east", "west", "north", "south"} \ {stable[n]} :
                 {o.nav.current_location :
                     o \in observe_direction([current_location |-> n], d)} = four \ {n}

\* a direction off the stable path has thrown the navigator from the tree
\* back to the crystals
C15_Witness ==
    /\ clk.op = "observe_direction"
    /\ clk.before = "tree"
    /\ clk.direction = "east"
    /\ nav.current_location = "crystals"

\* C16 as stated: at the platform, whose stable edge leads east to the
\* crystals, observing north, south or west yields the tree or the arch,
\* never the platform and never the crystals.
C16_Original ==
    ( /\ clk.op = "observe_direction"
      /\ clk.before = "platform"
      /\ clk.direction \in {"north", "south", "west"} )
       => nav.current_location \in {"tree", "arch"}

\* C16: at the platform, observing north, south or west yields the crystals,
\* the tree or the arch, each of them possible for each of the three
\* directions, and never the platform.
C16_PlatformScatter ==
    /\ ( /\ clk.op = "observe_direction"
         /\ clk.before = "platform"
         /\ clk.direction \in {"north", "south", "west"} )
          => /\ nav.current_location \in {"crystals", "tree", "arch"}
             /\ ~clk.raised
    /\ \A d \in {"north", "south", "west"} :
          \A x \in {"crystals", "tree", "arch"} :
             \E o \in observe_direction([current_location |-> "platform"], d) :
                o.nav.current_location = x

\* observing west at the platform has led to the crystals, the successor of
\* the platform's stable edge
C16_Witness ==
    /\ clk.op = "observe_direction"
    /\ clk.before = "platform"
    /\ clk.direction = "west"
    /\ nav.current_location = "crystals"

\* C17 as stated: at convergence, observing one of the four cardinal
\* directions completes without an error and moves the navigator to one of
\* platform, crystals, tree and arch.
C17_Original ==
    ( /\ clk.op = "observe_direction"
      /\ clk.before = "convergence"
      /\ clk.direction \in {"east", "west", "north", "south"} )
       => /\ ~clk.raised
          /\ nav.current_location \in {"platform", "crystals", "tree", "arch"}

\* C18: the navigator comes to the grove only from convergence and only by
\* closing the eyes, which at convergence always leads to the grove; and with
\* the navigator at the grove no call of observe_direction, whatever its
\* direction, the closing of the eyes included, changes the node.
C18_GroveByCollapse ==
    LET closed == \/ clk.op = "close_eyes_reset"
                  \/ clk.op = "observe_direction" /\ clk.direction = "close eyes"
    IN  /\ (nav.current_location = "grove" /\ clk.before # "grove")
              => (clk.before = "convergence" /\ closed)
        /\ (closed /\ clk.before = "convergence")
              => (nav.current_location = "grove" /\ clk.reached_grove /\ ~clk.raised)
        /\ (clk.op = "observe_direction" /\ clk.before = "grove")
              => (nav.current_location = "grove" /\ ~clk.raised)

\* the eyes have been closed through observe_direction with the navigator at
\* the grove, and it is still there
C18_Witness ==
    /\ clk.op = "observe_direction"
    /\ clk.direction = "close eyes"
    /\ clk.before = "grove"
    /\ nav.current_location = "grove"

\* the closing of the eyes at convergence has led to the grove
C18_WitnessEntry ==
    /\ clk.op = "close_eyes_reset"
    /\ clk.before = "convergence"
    /\ nav.current_location = "grove"

\* C19: closing the eyes at platform, crystals, tree or arch always leaves
\* the navigator at the platform, with no random choice.
C19_CloseEyesHome ==
    LET closed == \/ clk.op = "close_eyes_reset"
                  \/ clk.op = "observe_direction" /\ clk.direction = "close eyes"
    IN  /\ (closed /\ clk.before \in {"platform", "crystals", "tree", "arch"})
              => (nav.current_location = "platform" /\ ~clk.raised /\ ~clk.reached_grove)
        /\ \A n \in {"platform", "crystals", "tree", "arch"} :
              close_eyes_reset([current_location |-> n]).nav.current_location = "platform"

\* the eyes have been closed at the arch, one step from convergence, and the
\* navigator is back at the platform
C19_Witness ==
    /\ clk.op = "close_eyes_reset"
    /\ clk.before = "arch"
    /\ nav.current_location = "platform"

-----------------------------------------------------------------------------
(* Claims about the POISystem, checked under SpecPoi. *)

\* C21: move_to_poi with a target that is not in the connection list of the
\* current POI returns failure with cost 0 and leaves the current location,
\* the current POI, the visited set and the discovered set as they were.
C21_MoveRefused ==
    [][( /\ clk'.op = "move_to_poi"
         /\ \A i \in DOMAIN get_current_poi_data(poi).connections :
               get_current_poi_data(poi).connections[i] # clk'.arg )
          => /\ ~clk'.success
             /\ clk'.cost = 0
             /\ poi'.current_location = poi.current_location
             /\ poi'.current_poi = poi.current_poi
             /\ poi'.visited_pois = poi.visited_pois
             /\ poi'.discovered_pois = poi.discovered_pois
      ]_vars

\* a move from the landing site of brittle_hollow to a POI of another
\* location has been refused
C21_Witness ==
    /\ clk.op = "move_to_poi"
    /\ clk.arg = "radio_station"
    /\ ~clk.success
    /\ clk.cost = 0
    /\ poi.current_location = "brittle_hollow"
    /\ poi.current_poi = "landing_site"
    /\ <<"brittle_hollow", "radio_station">> \notin poi.discovered_pois

\* C23: enter_ship succeeds exactly at a POI with a ship while the player is
\* not in the ship; exit_ship succeeds exactly while in the ship and not
\* flying; launch_ship succeeds exactly while in the ship and not flying, and
\* then sets ship_flying; each success changes that one flag only, and every
\* refused transition returns a failure with a reason and leaves in_ship,
\* ship_flying and the position as they were.
C23_ShipGuards ==
    [][/\ clk'.op = "enter_ship" =>
             /\ clk'.success <=> (get_current_poi_data(poi).has_ship /\ ~poi.in_ship)
             /\ clk'.success => poi' = [poi EXCEPT !.in_ship = TRUE]
       /\ clk'.op = "exit_ship" =>
             /\ clk'.success <=> (poi.in_ship /\ ~poi.ship_flying)
             /\ clk'.success => poi' = [poi EXCEPT !.in_ship = FALSE]
       /\ clk'.op = "launch_ship" =>
             /\ clk'.success <=> (poi.in_ship /\ ~poi.ship_flying)
             /\ clk'.success => poi' = [poi EXCEPT !.ship_flying = TRUE]
       /\ (clk'.op \in {"enter_ship", "exit_ship", "launch_ship"} /\ ~clk'.success) =>
             /\ clk'.message \in { "Your ship isn't here.", "You're already in the ship.",
                                   "You're not in the ship.",
                                   "You can't exit while flying! Land first.",
                                   "You need to be in the ship.", "You're already flying." }
             /\ poi' = poi
      ]_vars

\* the player has tried to leave the ship in flight and is still aboard, in
\* flight
C23_Witness ==
    /\ clk.op = "exit_ship"
    /\ ~clk.success
    /\ clk.message = "You can't exit while flying! Land first."
    /\ poi.in_ship
    /\ poi.ship_flying

\* C24: land_at_location succeeds exactly when ship_flying is set, the
\* target is a location of the content and every token the target requires
\* is held; on success the current location is the target, the current POI
\* is the target's starting POI, added to the visited and to the discovered
\* set, ship_flying is false and the cost is 2; on failure the cost is 0 and
\* location, POI, ship flags, visited set and discovered set are as they were.
C24_Landing ==
    [][clk'.op = "land_at_location" =>
          LET target == clk'.arg
              known  == target \in {"timber_hearth", "brittle_hollow", "quantum_moon"}
              start  == LocationData[target].starting_poi
          IN  /\ clk'.success <=>
                    /\ poi.ship_flying
                    /\ known
                    /\ LocationData[target].requires_knowledge \subseteq km.knowledge_gained
              /\ clk'.success =>
                    /\ poi'.current_location = target
                    /\ poi'.current_poi = start
                    /\ poi'.visited_pois = poi.visited_pois \cup {<<target, start>>}
                    /\ poi'.discovered_pois = poi.discovered_pois \cup {<<target, start>>}
                    /\ ~poi'.ship_flying
                    /\ poi'.in_ship = poi.in_ship
                    /\ clk'.cost = 2
              /\ ~clk'.success => (clk'.cost = 0 /\ poi' = poi)
      ]_vars

\* the ship has landed on brittle_hollow for the first time, at its landing
\* site, at cost 2
C24_Witness ==
    /\ clk.op = "land_at_location"
    /\ clk.arg = "brittle_hollow"
    /\ clk.success
    /\ clk.cost = 2
    /\ poi.current_location = "brittle_hollow"
    /\ poi.current_poi = "landing_site"
    /\ poi.in_ship /\ ~poi.ship_flying
    /\ <<"brittle_hollow", "landing_site">> \in poi.visited_pois
    /\ "ship_operation" \in km.knowledge_gained

\* a landing on the quantum moon has been refused in flight for the missing
\* frequency token
C24_WitnessRefused ==
    /\ clk.op = "land_at_location"
    /\ clk.arg = "quantum_moon"
    /\ ~clk.success
    /\ poi.ship_flying
    /\ "quantum_moon_frequency" \notin km.knowledge_gained

\* C25 as stated: a location flagged always_accessible passes the access
\* check whatever tokens are missing, in can_visit_location and in
\* land_at_location alike: a landing there in flight is not refused.
C25_Original ==
    [][(clk'.arg \in Locations /\ LocationData[clk'.arg].always_accessible) =>
          /\ clk'.op = "can_visit_location" => clk'.success
          /\ (clk'.op = "land_at_location" /\ poi.ship_flying) => clk'.success
      ]_vars

------------------------------------------------------------------------\* C33: registration of static content that contains a dangling edge (a POI
\* connection naming a POI that does not exist in the location) fails at
\* registration time; as a consequence, in every reachable state the current
\* POI is a POI defined in the current location.
C33_Original ==
    <<poi.current_location, poi.current_poi>> \in AllPois

-----
(* Claims about the access check of the ship log, checked under SpecLog. *)

\* C26: can_access_entry tests the required knowledge, then the dialogue
\* count, then the exploration percentage; it allows the entry exactly when
\* all three pass, and a refusal carries the reason of the first requirement
\* that fails in that order, so that an entry failing both the knowledge and
\* the dialogue requirement reports the knowledge reason.
C26_AccessOrder ==
    clk.op = "can_access_entry" =>
        LET e     == clk.entry_data
            kfail == \E t \in e.requires_knowledge : t \notin km.knowledge_gained
            dfail == km.dialogue_topics_asked < e.requires_dialogue_count
            pfail == 100 * Cardinality(km.entries_discovered) <
                        e.requires_exploration_percentage * Cardinality(all_entries)
        IN  /\ clk.allowed <=> (~kfail /\ ~dfail /\ ~pfail)
            /\ kfail => clk.reason \in {Reason.stabilization, Reason.ship, Reason.knowledge}
            /\ (~kfail /\ dfail) => clk.reason = Reason.dialogue
            /\ (~kfail /\ ~dfail /\ pfail) => clk.reason = Reason.exploration

\* an entry that fails the knowledge, the dialogue and the exploration
\* requirement has been refused with the knowledge reason
C26_Witness ==
    /\ clk.op = "can_access_entry"
    /\ clk.entry_data.requires_knowledge = {"quantum_insight"}
    /\ clk.entry_data.requires_dialogue_count = 2
    /\ clk.entry_data.requires_exploration_percentage = 50
    /\ km.knowledge_gained = {}
    /\ km.dialogue_topics_asked = 1
    /\ Cardinality(km.entries_discovered) = 0
    /\ ~clk.allowed
    /\ clk.reason = Reason.knowledge

-----------------------------------------------------------------------------
(* Claims about the game, checked under Spec. *)

\* a step that is a loop reset: the supernova branch, or the collapse handler
\* with the player in the cavern
ResetStep ==
    /\ pc = "supernova" \/ (pc = "quantum_cavern_collapse" /\ in_quantum_cavern(poi))
    /\ pc' = "command"

ResetKinds == {"supernova reset", "death reset"}

\* C1: a loop reset, by supernova or by death in the cavern, leaves the set
\* of discovered entries as it was and the knowledge set as it was less the
\* loop-local token cavern_collapse_witnessed, which is absent afterwards.
C1_ResetKeepsKnowledge ==
    [][ResetStep =>
          /\ km'.entries_discovered = km.entries_discovered
          /\ km'.knowledge_gained = km.knowledge_gained \ {LoopLocalToken}
          /\ LoopLocalToken \notin km'.knowledge_gained]_vars

\* a reset has taken the loop-local token out of a knowledge set that holds
\* other tokens, with entries discovered
C1_Witness ==
    /\ obs.step \in ResetKinds
    /\ obs.removed
    /\ km.entries_discovered # {}
    /\ km.knowledge_gained # {}

\* C3: in the state a loop reset leaves, the player is at timber_hearth, at
\* its starting POI, and in_ship and ship_flying are both false.
C3_ResetPosition ==
    obs.step \in ResetKinds =>
        /\ poi.current_location = "timber_hearth"
        /\ poi.current_poi = LocationData["timber_hearth"].starting_poi
        /\ ~poi.in_ship
        /\ ~poi.ship_flying

\* a death in the cavern has put the player back at the village
C3_Witness ==
    /\ obs.step = "death reset"
    /\ poi.current_location = "timber_hearth"
    /\ poi.current_poi = "village_center"
    /\ <<"brittle_hollow", "quantum_cavern">> \in poi.visited_pois

\* C4: a loop reset sets the action counter to 0, clears the collapse flag
\* and adds exactly 1 to the loop counter; no step decreases the loop
\* counter, and a step that changes it is a reset.
C4_ResetClock ==
    [][/\ ResetStep =>
             /\ lm'.current_actions = 0
             /\ ~lm'.cavern_has_collapsed
             /\ lm'.loop_count = lm.loop_count + 1
       /\ lm'.loop_count >= lm.loop_count
       /\ lm'.loop_count # lm.loop_count => ResetStep]_vars

\* a death in the cavern has opened loop 2 with the counter at 0 and the
\* flag clear
C4_Witness ==
    /\ obs.step = "death reset"
    /\ lm.loop_count = 2
    /\ lm.current_actions = 0
    /\ ~lm.cavern_has_collapsed

\* a step of the collapse branch of _exploration_loop
CollapseHandled == pc = "quantum_cavern_collapse" /\ pc' = "command"

\* C8 as stated: the spend that returns the collapse signal and the handling
\* of the signal leave the loop counter as it was, and the handling leaves
\* the action counter at the value the spend gave it.
C8_Original ==
    [][/\ (pc = "command" /\ pc' = "quantum_cavern_collapse") =>
             /\ lm'.current_actions = MidLoopAction
             /\ lm'.loop_count = lm.loop_count
       /\ CollapseHandled =>
             /\ lm'.current_actions = lm.current_actions
             /\ lm'.loop_count = lm.loop_count]_vars

\* C8 amended: the spend that returns the collapse signal leaves the counter
\* at 14 and the loop counter as it was; the handling leaves both as they
\* were unless the player is in the quantum cavern of Brittle Hollow, where
\* it is a loop reset: the counter goes to 0 and the loop counter up by 1.
C8_CollapseKeepsClock ==
    [][/\ (pc = "command" /\ pc' = "quantum_cavern_collapse") =>
             /\ lm'.current_actions = MidLoopAction
             /\ lm'.loop_count = lm.loop_count
       /\ CollapseHandled =>
             IF in_quantum_cavern(poi)
             THEN /\ lm'.current_actions = 0
                  /\ lm'.loop_count = lm.loop_count + 1
             ELSE /\ lm'.current_actions = lm.current_actions
                  /\ lm'.loop_count = lm.loop_count]_vars

\* the collapse has been handled with the player on Brittle Hollow outside
\* the cavern: the token is granted and the counter stands at 14
C8_Witness ==
    /\ obs.step = "collapse handled"
    /\ poi.current_location = "brittle_hollow"
    /\ LoopLocalToken \in km.knowledge_gained
    /\ lm.current_actions = MidLoopAction

\* C12: a quantum entry enters the discovered set only in a read made while
\* its state is the key state 6; a read made while its state is 0..5 leaves
\* the discovered set and the knowledge set as they were; the first read at
\* state 6 discovers the entry, and a later read at state 6 discovers nothing
\* again and leaves the ship log as it was.
C12_ReadAtKeyState ==
    [][\A e \in QuantumEntryIds :
          /\ (e \notin km.entries_discovered /\ e \in km'.entries_discovered)
                => (CmdExamine(e) /\ qs[e] = KeyState)
          /\ (CmdExamine(e) /\ qs[e] # KeyState)
                => /\ km'.entries_discovered = km.entries_discovered
                   /\ km'.knowledge_gained = km.knowledge_gained
                   /\ km'.new_entries_since_last_view = km.new_entries_since_last_view
          /\ (CmdExamine(e) /\ qs[e] = KeyState /\ e \notin km.entries_discovered)
                => /\ km'.entries_discovered = km.entries_discovered \cup {e}
                   /\ km'.new_entries_since_last_view = km.new_entries_since_last_view + 1
          /\ (CmdExamine(e) /\ qs[e] = KeyState /\ e \in km.entries_discovered)
                => km' = km
      ]_vars

\* the entry of the cavern has been read in the key state and is discovered
C12_Witness ==
    /\ <<"brittle_hollow", "cavern_text">> \in km.entries_discovered
    /\ "quantum_insight" \in km.knowledge_gained
    /\ qs[<<"brittle_hollow", "cavern_text">>] = KeyState
    /\ poi.current_poi = "quantum_cavern"
    /\ obs.step = "command"

\* C13: the state of a quantum entry changes only in a quantum observation,
\* the Close Eyes command away from the quantum moon: a step that reads an
\* entry, moves, lands, spends actions or resets the loop, by supernova or by
\* death, leaves every state as it was, and a state that has left 0 does not
\* return to 0.
C13_OnlyObservationChanges ==
    [][/\ qs' # qs => (CmdCloseEyes /\ poi.current_location # "quantum_moon")
       /\ (\E e \in AllEntryIds : CmdExamine(e)) => qs' = qs
       /\ (lm' # lm \/ km' # km \/ poi' # poi) => qs' = qs
       /\ (ResetStep \/ CollapseHandled) => qs' = qs
       /\ \A e \in QuantumEntryIds : qs[e] # 0 => qs'[e] # 0
      ]_vars

\* a supernova reset has left the observed state of the cavern's entry
C13_Witness ==
    /\ obs.step = "supernova reset"
    /\ lm.loop_count = 2
    /\ qs[<<"brittle_hollow", "cavern_text">>] = 4

Moves(poi_id) == CmdGoTo(poi_id) /\ move_to_poi(poi, poi_id).success

\* C22 as stated: a successful move to an adjacent POI sets the current POI
\* to the target, adds the target to the visited and discovered sets, and
\* advances the action counter by the configured cost of the edge, its
\* distance_to value, or 1 when none is configured.
C22_Original ==
    [][\A poi_id \in PoiInputs :
          Moves(poi_id) =>
             /\ poi'.current_poi = poi_id
             /\ <<poi.current_location, poi_id>> \in poi'.visited_pois
             /\ <<poi.current_location, poi_id>> \in poi'.discovered_pois
             /\ lm'.current_actions =
                   lm.current_actions + distance(get_current_poi_data(poi), poi_id)
      ]_vars

\* C27 as stated: every discovered entry is in the set of entries visible in
\* the rumor-mode view, whether or not its appears_after tokens are held.
C27_Original ==
    \A e \in km.entries_discovered : e \in _get_visible_entries(km)

\* C28: over discoveries, other commands and loop resets the completion
\* percentage never decreases, and a loop reset, by supernova or by death,
\* leaves it as it was.
C28_CompletionMonotone ==
    [][LET before == get_completion_percentage(km, Cardinality(all_entries))
           after  == get_completion_percentage(km', Cardinality(all_entries))
       IN  /\ before[1] * after[2] <= after[1] * before[2]
           /\ ResetStep => (before[1] * after[2] = after[1] * before[2])
      ]_vars

\* a death in the cavern has reset the loop with two of the three registered
\* entries discovered
C28_Witness ==
    /\ obs.step = "death reset"
    /\ Cardinality(km.entries_discovered) = 2
    /\ get_completion_percentage(km, Cardinality(all_entries)) = <<200, 3>>

\* C30: a command that fails validation (a move to a POI that cannot be
\* reached, a landing that is refused, a launch that is refused) changes
\* nothing: position, ship flags, knowledge, action counter and loop counter
\* are the same after the command as before it.
C30_Original ==
    [][LET refused ==
               \/ \E poi_id \in {q[2] : q \in AllPois} :
                      CmdGoTo(poi_id) /\ ~move_to_poi(poi, poi_id).success
               \/ \E location_id \in Locations \cup {"???"} :
                      CmdVisit(location_id) /\ ~land_at_location(poi, km, location_id).success
               \/ \E choice \in Locations \cup {NoChoice} :
                      CmdLaunch(choice) /\ ~has_knowledge(km, "signal_scope_frequencies")
       IN  refused => /\ poi' = poi
                      /\ km' = km
                      /\ lm' = lm
      ]_vars

\* C31: the visited-POI set and the discovered-POI set only grow: no move,
\* landing, ship transition or loop reset removes an element from either; and
\* after every successful move, landing and reset (indeed after every step)
\* the player's current location.POI is a member of both sets.
C31_PoiSetsGrow ==
    [][/\ poi.visited_pois \subseteq poi'.visited_pois
       /\ poi.discovered_pois \subseteq poi'.discovered_pois
       /\ <<poi'.current_location, poi'.current_poi>> \in poi'.visited_pois
       /\ <<poi'.current_location, poi'.current_poi>> \in poi'.discovered_pois
      ]_vars

\* a supernova reset has been taken with four POIs visited, two of them on
\* another planet, and the player is back at the village
C31_Witness ==
    /\ obs.step = "supernova reset"
    /\ Cardinality(poi.visited_pois) = 4
    /\ <<"brittle_hollow", "quantum_cavern">> \in poi.visited_pois
    /\ <<poi.current_location, poi.current_poi>> = <<"timber_hearth", "village_center">>

\* C32: no entry is ever marked discovered in a state where one of its
\* required knowledge tokens is missing: every path that discovers an entry
\* (normal read and the quantum read at state 6) happens only when the
\* entry's access gate passes at that moment.
C32_Original ==
    [][\A e \in km'.entries_discovered \ km.entries_discovered :
           /\ has_all_knowledge(km, _get_entry_data(e).requires_knowledge)
           /\ can_access_entry(km, e)
      ]_vars

C35_Original ==
    [][/\ (CmdCloseEyes /\ at_quantum_surface(World) /\ nav.current_location = "convergence")
             => lm' = lm
       /\ (CmdOpenEyes /\ orch.eyes_closed_at_location = "convergence")
             => /\ at_grove(poi')
                /\ lm'.current_actions = lm.current_actions + 1
      ]_vars

\* C36: in the driver every mid-loop event emitted by the clock is acted on:
\* in any state where the clock's collapse flag is true the collapse handler
\* has run in the current loop, so the step that sets the flag hands over to
\* the handler, including when the counter reaches 14 inside the extra spend
\* made by a movement, launch or landing.
C36_Original ==
    [][(~lm.cavern_has_collapsed /\ lm'.cavern_has_collapsed)
          => pc' = "quantum_cavern_collapse"
      ]_vars

\* C37: with the budget at 22, whenever the driver is about to read a new
\* command the action counter is strictly below the terminal threshold: a
\* counter that reached or passed the threshold during a command, the extra
\* spends inside movement, launch and landing included, leads to the reset
\* before the next command is accepted.
C37_BelowThreshold ==
    /\ lm.actions_until_supernova = 22
    /\ pc = "command" => lm.current_actions < lm.actions_until_supernova

\* the counter went from 21 to 25 within one launch with a landing, past the
\* threshold inside the extra spends, and the supernova reset is what the
\* driver does next
C37_Witness ==
    /\ pc = "supernova"
    /\ lm.current_actions = 25
    /\ ~poi.ship_flying /\ poi.in_ship

\* C38: the two loop counters kept by the program, LoopManager.loop_count
\* and KnowledgeProgress.current_loop, are equal in every reachable state:
\* both start at 1, every reset path increments both exactly once, and no
\* other step writes either.
C38_LoopCountersAgree ==
    /\ lm.loop_count = 1 /\ km.current_loop = 1
    /\ [][/\ lm'.loop_count = km'.current_loop
          /\ IF ResetStep
             THEN lm'.loop_count = lm.loop_count + 1 /\ km'.current_loop = km.current_loop + 1
             ELSE lm'.loop_count = lm.loop_count /\ km'.current_loop = km.current_loop
         ]_vars

\* the death in the cavern, the reset path that writes both counters by
\* hand, has brought both to 2
C38_Witness ==
    /\ obs.step = "death reset"
    /\ lm.loop_count = 2
    /\ km.current_loop = 2
    /\ lm.is_first_loop

\* C39: in every state reachable by any sequence of commands (enter ship,
\* exit ship, launch, land, move, quantum navigation including the arrival
\* at the grove, and loop resets), ship_flying implies in_ship.
C39_FlyingAboard ==
    poi.ship_flying => poi.in_ship

\* the ship is in flight over the home planet, after a launch whose
\* destination menu was left without a choice
C39_Witness ==
    /\ poi.ship_flying /\ poi.in_ship
    /\ pc = "command"
    /\ poi.current_location = "timber_hearth"
    /\ lm.current_actions = 2

-----------------------------------------------------------------------------
(* Claims about the talk command, checked under SpecTalk. *)

\* C40: an entry gated by a dialogue-count threshold N > 0 can become
\* accessible: there is a sequence of commands (talking to NPCs) after which
\* the cumulative dialogue-exchange count is at least N and can_access_entry
\* no longer refuses the entry for its dialogue requirement.  For a player
\* who keeps talking, and N = 1: eventually the count is at least 1 and the
\* entry is not refused for its dialogue requirement.
C40_Original ==
    <>( /\ km.dialogue_topics_asked >= GatedEntry.requires_dialogue_count
        /\ entry_access(km, GatedEntry).reason # Reason.dialogue )

====
